---- MODULE Spec2Model ----
(***************************************************************************)
(* A model of the memcached text-protocol client of memalpha: the          *)
(* textproto.TextConn codec (sticky error slot, reply classifier, command  *)
(* encoders and response parsers) over a buffered byte stream.             *)
(*                                                                         *)
(* Bytes are one-character strings and byte slices are sequences of them.  *)
(* The response stream is the sequence rd of bytes not yet consumed from   *)
(* the bufio.Reader; rdEnd is what the underlying reader answers once rd   *)
(* is exhausted.  The request side is the bufio.Writer buffer wbuf, its    *)
(* own sticky error werr, and out, the bytes handed to the peer.           *)
(***************************************************************************)
EXTENDS Integers, Sequences, FiniteSets, TLC

VARIABLES
  err,     \* TextConn.err, the sticky error slot
  rd,      \* response bytes not yet consumed from c.rw (bufio.Reader + conn)
  rdEnd,   \* what the underlying reader returns after the last byte
  wbuf,    \* bytes held in the bufio.Writer of c.rw
  werr,    \* the bufio.Writer's own sticky error
  wfail,   \* TRUE when the underlying writer fails every Write
  out,     \* bytes the underlying writer received during the last call
  net,     \* TextConn.netConn and TextConn.rw (non-nil or nil), and how often
           \* the network connection was closed
  log,     \* the steps of the last call, in order (history variable)
  ret,     \* what the last call was and what it returned (history variable)
  pool,    \* a Pool: its channel idleConns, the connections dialed for it,
           \* what each caller holds and where each caller is in its call
  pret     \* the last call on the pool that returned (history variable)

vars == <<err, rd, rdEnd, wbuf, werr, wfail, out, net, log, ret, pool, pret>>

(***************************************************************************)
(* Bounds of the model.                                                    *)
(***************************************************************************)
\* Size of the bufio read and write buffers (bufio's default is 4096).
BufSize == 8
\* Number of reply chunks queued on the response stream at the start.
MaxChunks == 2
\* Longest message carried by a CLIENT_ERROR / SERVER_ERROR line.
MaxMsgLen == 2

(***************************************************************************)
(* Byte-slice helpers (package bytes / strings).                           *)
(***************************************************************************)
Drop(s, n) == SubSeq(s, n + 1, Len(s))

Take(s, n) == SubSeq(s, 1, n)

HasPrefix(s, p) == Len(s) >= Len(p) /\ Take(s, Len(p)) = p

HasSuffix(s, p) == Len(s) >= Len(p) /\ Drop(s, Len(s) - Len(p)) = p

\* Index of the first occurrence of byte b in s, 0 when there is none.
IndexByte(s, b) ==
  LET hits == {i \in 1..Len(s) : s[i] = b}
  IN IF hits = {} THEN 0 ELSE CHOOSE i \in hits : \A j \in hits : i <= j

RECURSIVE Split(_, _)
\* strings.Split(s, sep) for a one-byte separator.
Split(s, b) ==
  LET i == IndexByte(s, b)
  IN IF i = 0 THEN <<s>> ELSE <<Take(s, i - 1)>> \o Split(Drop(s, i), b)

RECURSIVE SplitN(_, _, _)
\* bytes.SplitN(s, sep, n) for a one-byte separator and n >= 1.
SplitN(s, b, n) ==
  LET i == IndexByte(s, b)
  IN IF n <= 1 \/ i = 0 THEN <<s>>
     ELSE <<Take(s, i - 1)>> \o SplitN(Drop(s, i), b, n - 1)

RECURSIVE Join(_, _)
\* strings.Join(parts, sep).
Join(parts, sep) ==
  IF Len(parts) = 0 THEN <<>>
  ELSE IF Len(parts) = 1 THEN parts[1]
  ELSE parts[1] \o sep \o Join(Tail(parts), sep)

RECURSIVE Concat(_)
Concat(seqs) == IF Len(seqs) = 0 THEN <<>> ELSE seqs[1] \o Concat(Tail(seqs))

SP == <<" ">>

(***************************************************************************)
(* Decimal numbers (package strconv, fmt's %d).  An unsigned value is kept *)
(* as its canonical decimal digits, so that 64-bit values stay exact.      *)
(***************************************************************************)
Digit == <<"0", "1", "2", "3", "4", "5", "6", "7", "8", "9">>

IsDigit(ch) == \E i \in 1..10 : Digit[i] = ch

DigitVal(ch) == (CHOOSE i \in 1..10 : Digit[i] = ch) - 1

Zero == <<"0">>

RECURSIVE StripZeros(_)
StripZeros(d) ==
  IF Len(d) > 1 /\ d[1] = "0" THEN StripZeros(Tail(d)) ELSE d

RECURSIVE DecLess(_, _)
\* a < b for canonical digit sequences.
DecLess(a, b) ==
  IF Len(a) # Len(b) THEN Len(a) < Len(b)
  ELSE IF Len(a) = 0 THEN FALSE
  ELSE IF a[1] # b[1] THEN DigitVal(a[1]) < DigitVal(b[1])
  ELSE DecLess(Tail(a), Tail(b))

RECURSIVE ToInt(_)
\* The value of a short digit sequence.
ToInt(d) ==
  IF Len(d) = 0 THEN 0 ELSE 10 * ToInt(Take(d, Len(d) - 1)) + DigitVal(d[Len(d)])

RECURSIVE ItoaNat(_)
ItoaNat(n) ==
  IF n < 10 THEN <<Digit[n + 1]>> ELSE ItoaNat(n \div 10) \o <<Digit[(n % 10) + 1]>>

\* fmt's %d of an integer.
Itoa(n) == IF n < 0 THEN <<"-">> \o ItoaNat(0 - n) ELSE ItoaNat(n)

maxUint64 == <<"1", "8", "4", "4", "6", "7", "4", "4", "0", "7", "3", "7", "0", "9", "5", "5", "1", "6", "1", "5">>

maxUint32 == <<"4", "2", "9", "4", "9", "6", "7", "2", "9", "5">>

(***************************************************************************)
(* Errors.  Every error value has the same shape: its kind (the Go type or *)
(* the named variable), its message and, for strconv.NumError, its cause.  *)
(***************************************************************************)
MkErr(kind, msg, cause) == [kind |-> kind, msg |-> msg, cause |-> cause]

Nil == MkErr("nil", <<>>, "")

ErrCacheMiss == MkErr("ErrCacheMiss", <<>>, "")

ErrNotFound == MkErr("ErrNotFound", <<>>, "")

ErrCasConflict == MkErr("ErrCasConflict", <<>>, "")

ErrNotStored == MkErr("ErrNotStored", <<>>, "")

ErrReplyError == MkErr("ErrReplyError", <<>>, "")

ProtocolError(msg) == MkErr("ProtocolError", msg, "")

ClientError(msg) == MkErr("ClientError", msg, "")

ServerError(msg) == MkErr("ServerError", msg, "")

\* *strconv.NumError{Func: "ParseUint", Num: s, Err: cause}
NumError(s, cause) == MkErr("NumError", s, cause)

\* Errors of the stream layer: io.EOF, io.ErrUnexpectedEOF, and the transport
\* errors of the underlying reader and writer.
EOF == MkErr("EOF", <<>>, "")

ErrUnexpectedEOF == MkErr("ErrUnexpectedEOF", <<>>, "")

NetReadError == MkErr("NetReadError", <<>>, "")

NetWriteError == MkErr("NetWriteError", <<>>, "")

TransportErrors == {EOF, ErrUnexpectedEOF, NetReadError, NetWriteError}

\* strconv.ParseUint(s, 10, bitSize): the value, or a NumError.
ParseUint(s, max) ==
  IF Len(s) = 0 \/ \E i \in 1..Len(s) : ~IsDigit(s[i])
  THEN [val |-> Zero, err |-> NumError(s, "ErrSyntax")]
  ELSE LET canon == StripZeros(s)
       IN IF DecLess(max, canon)
          THEN [val |-> max, err |-> NumError(s, "ErrRange")]
          ELSE [val |-> canon, err |-> Nil]

(***************************************************************************)
(* Protocol literals of the codec.                                         *)
(***************************************************************************)
replyStored == <<"S", "T", "O", "R", "E", "D">>

replyNotStored == <<"N", "O", "T", "_", "S", "T", "O", "R", "E", "D">>

replyExists == <<"E", "X", "I", "S", "T", "S">>

replyNotFound == <<"N", "O", "T", "_", "F", "O", "U", "N", "D">>

replyDeleted == <<"D", "E", "L", "E", "T", "E", "D">>

replyTouched == <<"T", "O", "U", "C", "H", "E", "D">>

replyOk == <<"O", "K">>

replyError == <<"E", "R", "R", "O", "R">>

replyClientErrorPrefix == <<"C", "L", "I", "E", "N", "T", "_", "E", "R", "R", "O", "R", " ">>

replyServerErrorPrefix == <<"S", "E", "R", "V", "E", "R", "_", "E", "R", "R", "O", "R", " ">>

responseEnd == <<"E", "N", "D">>

bytesCrlf == <<"\r", "\n">>

bytesVersion == <<"V", "E", "R", "S", "I", "O", "N", " ">>

optionNoreply == <<"n", "o", "r", "e", "p", "l", "y">>

statPrefix == <<"S", "T", "A", "T", " ">>

msgUnknownReply == <<"u", "n", "k", "n", "o", "w", "n", " ", "r", "e", "p", "l", "y", " ", "t", "y", "p", "e", ":", " ">>

msgMalformedResponse == <<"m", "a", "l", "f", "o", "r", "m", "e", "d", " ", "r", "e", "s", "p", "o", "n", "s", "e", ":", " ">>

msgCorruptEnd == <<"m", "a", "l", "f", "o", "r", "m", "e", "d", " ", "r", "e", "s", "p", "o", "n", "s", "e", ":", " ", "c", "o", "r", "r", "u", "p", "t", " ", "g", "e", "t", " ", "r", "e", "s", "u", "l", "t", " ", "e", "n", "d">>

msgMalformedStats == <<"m", "a", "l", "f", "o", "r", "m", "e", "d", " ", "s", "t", "a", "t", "s", " ", "r", "e", "s", "p", "o", "n", "s", "e">>

cmdGet == <<"g", "e", "t">>

cmdGets == <<"g", "e", "t", "s">>

cmdSet == <<"s", "e", "t">>

cmdAdd == <<"a", "d", "d">>

cmdReplace == <<"r", "e", "p", "l", "a", "c", "e">>

cmdAppend == <<"a", "p", "p", "e", "n", "d">>

cmdPrepend == <<"p", "r", "e", "p", "e", "n", "d">>

cmdCas == <<"c", "a", "s">>

cmdDelete == <<"d", "e", "l", "e", "t", "e">>

cmdIncr == <<"i", "n", "c", "r">>

cmdDecr == <<"d", "e", "c", "r">>

cmdTouch == <<"t", "o", "u", "c", "h">>

cmdStats == <<"s", "t", "a", "t", "s">>

cmdFlushAll == <<"f", "l", "u", "s", "h", "_", "a", "l", "l">>

cmdVersion == <<"v", "e", "r", "s", "i", "o", "n">>

cmdQuit == <<"q", "u", "i", "t">>

\* fmt's %#v of a string: the Go-syntax quoted form.
RECURSIVE QuoteBody(_)
QuoteBody(s) ==
  IF Len(s) = 0 THEN <<>>
  ELSE (CASE s[1] = "\"" -> <<"\\", "\"">>
          [] s[1] = "\\" -> <<"\\", "\\">>
          [] s[1] = "\r" -> <<"\\", "r">>
          [] s[1] = "\n" -> <<"\\", "n">>
          [] OTHER -> <<s[1]>>) \o QuoteBody(Tail(s))

Quote(s) == <<"\"">> \o QuoteBody(s) \o <<"\"">>

(***************************************************************************)
(* The connection as a record, so that the codec's methods compose:        *)
(* each operator below takes the connection before the call and returns    *)
(* the connection after it, with the call's results.                       *)
(***************************************************************************)
\* The connection DialContext returns: netConn and rw set, nothing closed.
NetOpen == [netConn |-> TRUE, rw |-> TRUE, closes |-> 0]

Conn == [err |-> err, rd |-> rd, rdEnd |-> rdEnd, wbuf |-> wbuf, werr |-> werr,
         wfail |-> wfail, out |-> out, net |-> net, log |-> log]

\* The element of a singleton set.
The(S) == CHOOSE x \in S : TRUE

\* F applied to the value of e, e being evaluated once: a local variable.
Bind(e, F(_)) == The({F(x) : x \in {e}})

Bind2(e1, e2, F(_, _)) == The({F(x, y) : x \in {e1}, y \in {e2}})

\* One step of a call, appended to its log: io tells whether the step called
\* the stream (c.rw), e is the error the step ended with.
Step(c, op, io, e) ==
  [c EXCEPT !.log = Append(@, [op |-> op, io |-> io, err |-> e])]

(***************************************************************************)
(* The stream layer: bufio.Reader.ReadLine, io.ReadFull, bufio.Writer.     *)
(***************************************************************************)
\* bufio.Reader.ReadLine on the unread bytes data: one line without its end
\* of line, or a fragment of BufSize bytes (isPrefix) when the buffer fills
\* before a newline is seen.
bufioReadLine(data, end) ==
  Bind(IndexByte(data, "\n"), LAMBDA nl :
    IF nl # 0 /\ nl <= BufSize
    THEN LET n == IF nl > 1 /\ data[nl - 1] = "\r" THEN nl - 2 ELSE nl - 1
         IN [line |-> Take(data, n), isPrefix |-> FALSE, err |-> Nil,
             rest |-> Drop(data, nl)]
    ELSE IF Len(data) >= BufSize
    THEN LET keep == IF data[BufSize] = "\r" THEN BufSize - 1 ELSE BufSize
         IN [line |-> Take(data, keep), isPrefix |-> TRUE, err |-> Nil,
             rest |-> Drop(data, keep)]
    ELSE IF Len(data) = 0
    THEN [line |-> <<>>, isPrefix |-> FALSE, err |-> end, rest |-> <<>>]
    ELSE [line |-> data, isPrefix |-> FALSE, err |-> Nil, rest |-> <<>>])

\* io.ReadFull(c.rw, buffer) for a buffer of n bytes.
ioReadFull(data, end, n) ==
  IF Len(data) >= n
  THEN [buf |-> Take(data, n), err |-> Nil, rest |-> Drop(data, n)]
  ELSE IF Len(data) = 0
  THEN [buf |-> <<>>, err |-> end, rest |-> <<>>]
  ELSE [buf |-> data, err |-> IF end = EOF THEN ErrUnexpectedEOF ELSE end,
        rest |-> <<>>]

\* bufio.Writer.Flush.
bufioFlush(c) ==
  IF c.werr # Nil THEN c
  ELSE IF Len(c.wbuf) = 0 THEN c
  ELSE IF c.wfail THEN [c EXCEPT !.werr = NetWriteError]
  ELSE [c EXCEPT !.out = @ \o c.wbuf, !.wbuf = <<>>]

RECURSIVE bufioWrite(_, _)
\* bufio.Writer.Write(p); the error it returns is the resulting werr.
bufioWrite(c, p) ==
  IF Len(p) > BufSize - Len(c.wbuf) /\ c.werr = Nil
  THEN IF Len(c.wbuf) = 0
       THEN IF c.wfail THEN [c EXCEPT !.werr = NetWriteError]
            ELSE [c EXCEPT !.out = @ \o p]
       ELSE Bind2(bufioFlush([c EXCEPT !.wbuf = @ \o Take(p, BufSize - Len(c.wbuf))]),
                  Drop(p, BufSize - Len(c.wbuf)), bufioWrite)
  ELSE IF c.werr # Nil THEN c
  ELSE [c EXCEPT !.wbuf = @ \o p]

(***************************************************************************)
(* TextConn: the guarded stream primitives and the sticky error slot.      *)
(***************************************************************************)
\* errors.New("buffer is not enough") of the earlier Client.
ErrBufferNotEnough == MkErr("errorString", <<"b", "u", "f">>, "")

\* One ReadLine as the earlier Client.receiveReply does it: a fragment is an
\* error and no line.
readLineOverflows(c, line, isPrefix) ==
  Bind(bufioReadLine(c.rd, c.rdEnd), LAMBDA r :
    Bind(IF r.err # Nil THEN r.err
         ELSE IF r.isPrefix THEN ErrBufferNotEnough ELSE Nil, LAMBDA e :
      [c |-> Step([c EXCEPT !.err = e, !.rd = r.rest], "ReadLine", TRUE, e),
       line |-> IF e = Nil THEN r.line ELSE <<>>]))

RECURSIVE readLineLoop(_, _, _)
readLineLoop(c, line, isPrefix) ==
  IF isPrefix /\ c.err = Nil
  THEN Bind(bufioReadLine(c.rd, c.rdEnd), LAMBDA r :
         Bind2(Step([c EXCEPT !.err = r.err, !.rd = r.rest], "ReadLine", TRUE, r.err),
               line \o r.line,
               LAMBDA c1, line1 : readLineLoop(c1, line1, r.isPrefix)))
  ELSE [c |-> c, line |-> line]

readLine(conn) ==
  Bind(conn, LAMBDA c :
    IF c.err # Nil THEN [c |-> c, line |-> <<>>]
    ELSE readLineLoop(c, <<>>, TRUE))

\* write without its guard on the sticky slot.
writeUnguarded(conn, bytes) ==
  Bind2(conn, bytes, LAMBDA c, p :
    Bind(bufioWrite(c, p), LAMBDA w :
      Step([w EXCEPT !.err = w.werr], "Write", TRUE, w.werr)))

write(conn, bytes) ==
  Bind2(conn, bytes, LAMBDA c, p :
    IF c.err # Nil THEN c
    ELSE Bind(bufioWrite(c, p), LAMBDA w :
           Step([w EXCEPT !.err = w.werr], "Write", TRUE, w.werr)))

\* flush without its guard on the sticky slot.
flushUnguarded(conn) ==
  Bind(conn, LAMBDA c :
    Bind(bufioFlush(c), LAMBDA w :
      Step([w EXCEPT !.err = w.werr], "Flush", TRUE, w.werr)))

flush(conn) ==
  Bind(conn, LAMBDA c :
    IF c.err # Nil THEN c
    ELSE Bind(bufioFlush(c), LAMBDA w :
           Step([w EXCEPT !.err = w.werr], "Flush", TRUE, w.werr)))

\* Err results in clearing c.err.
\* Err that reports the slot and leaves it as it is.
ErrKeeps(conn) == Bind(conn, LAMBDA c : [c |-> c, err |-> c.err])

\* Err results in clearing c.err
Err(conn) == Bind(conn, LAMBDA c : [c |-> [c EXCEPT !.err = Nil], err |-> c.err])

receiveReply(conn) ==
  Bind(conn, LAMBDA c :
    IF c.err # Nil THEN [c |-> c, line |-> <<>>]
    ELSE readLine(c))

(***************************************************************************)
(* The reply classifier.                                                   *)
(***************************************************************************)
\* The success tokens without OK.
isSuccessReplyNoOk(reply) ==
  reply = replyStored \/ reply = replyDeleted \/ reply = replyTouched

\* The first case of checkReply's switch: the success tokens.
isSuccessReply(reply) ==
  reply = replyStored \/ reply = replyDeleted \/ reply = replyTouched
    \/ reply = replyOk

\* The switch with the errors of EXISTS and NOT_STORED exchanged.
replyErrorOfSwapped(reply) ==
  IF reply = replyExists THEN ErrNotStored
  ELSE IF reply = replyNotStored THEN ErrCasConflict
  ELSE IF reply = replyNotFound THEN ErrNotFound
  ELSE IF reply = replyError THEN ErrReplyError
  ELSE IF HasPrefix(reply, replyClientErrorPrefix)
  THEN ClientError(Drop(reply, Len(replyClientErrorPrefix)))
  ELSE IF HasPrefix(reply, replyServerErrorPrefix)
  THEN ServerError(Drop(reply, Len(replyServerErrorPrefix)))
  ELSE Nil

\* The switch cutting the prefix one byte short: the message keeps the space.
replyErrorOfKeepsSpace(reply) ==
  IF reply = replyExists THEN ErrCasConflict
  ELSE IF reply = replyNotStored THEN ErrNotStored
  ELSE IF reply = replyNotFound THEN ErrNotFound
  ELSE IF reply = replyError THEN ErrReplyError
  ELSE IF HasPrefix(reply, replyClientErrorPrefix)
  THEN ClientError(Drop(reply, Len(replyClientErrorPrefix) - 1))
  ELSE IF HasPrefix(reply, replyServerErrorPrefix)
  THEN ServerError(Drop(reply, Len(replyServerErrorPrefix) - 1))
  ELSE Nil

\* The switch with a default case that rejects every other line.
replyErrorOfStrict(reply) ==
  IF reply = replyExists THEN ErrCasConflict
  ELSE IF reply = replyNotStored THEN ErrNotStored
  ELSE IF reply = replyNotFound THEN ErrNotFound
  ELSE IF reply = replyError THEN ErrReplyError
  ELSE IF HasPrefix(reply, replyClientErrorPrefix)
  THEN ClientError(Drop(reply, Len(replyClientErrorPrefix)))
  ELSE IF HasPrefix(reply, replyServerErrorPrefix)
  THEN ServerError(Drop(reply, Len(replyServerErrorPrefix)))
  ELSE ProtocolError(msgUnknownReply \o reply)

\* The other cases of checkReply's switch, in order: the error the line
\* stands for, Nil when no case matches.
replyErrorOf(reply) ==
  IF reply = replyExists THEN ErrCasConflict
  ELSE IF reply = replyNotStored THEN ErrNotStored
  ELSE IF reply = replyNotFound THEN ErrNotFound
  ELSE IF reply = replyError THEN ErrReplyError
  ELSE IF HasPrefix(reply, replyClientErrorPrefix)
  THEN ClientError(Drop(reply, Len(replyClientErrorPrefix)))
  ELSE IF HasPrefix(reply, replyServerErrorPrefix)
  THEN ServerError(Drop(reply, Len(replyServerErrorPrefix)))
  ELSE Nil

checkReply(conn, line) ==
  Bind2(conn, line, LAMBDA c, reply :
    IF c.err # Nil THEN [c |-> c, ok |-> FALSE]
    ELSE IF isSuccessReply(reply)
    THEN [c |-> Step(c, "checkReply", FALSE, Nil), ok |-> TRUE]
    ELSE Bind(replyErrorOf(reply), LAMBDA e :
           [c |-> Step([c EXCEPT !.err = e], "checkReply", FALSE, e), ok |-> FALSE]))

\* receiveCheckReply without the test that the slot is still empty.
receiveCheckReplyOverwrites(conn) ==
  Bind(receiveReply(conn), LAMBDA r :
    Bind(checkReply(r.c, r.line), LAMBDA k :
      IF ~k.ok
      THEN LET e == ProtocolError(msgUnknownReply \o r.line)
           IN Step([k.c EXCEPT !.err = e], "unknownReply", FALSE, e)
      ELSE k.c))

receiveCheckReply(conn) ==
  Bind(receiveReply(conn), LAMBDA r :
    Bind(checkReply(r.c, r.line), LAMBDA k :
      IF k.c.err = Nil /\ ~k.ok
      THEN LET e == ProtocolError(msgUnknownReply \o r.line)
           IN Step([k.c EXCEPT !.err = e], "unknownReply", FALSE, e)
      ELSE k.c))

(***************************************************************************)
(* Retrieval commands.                                                     *)
(***************************************************************************)
\* A *memalpha.Response; nil marks the nil pointer.
NilResponse == [nil |-> TRUE, Value |-> <<>>, Flags |-> Zero, CasID |-> Zero]

\* A Go map as a set of <<key, value>> pairs with distinct keys: m[k] = v.
MapPut(m, k, v) == {p \in m : p[1] # k} \cup {<<k, v>>}

MapKeys(m) == {p[1] : p \in m}

\* The retrieval request left in the write buffer.
sendRetrieveCommandNoFlush(c, cmd, key) ==
  write(c, cmd \o SP \o key \o bytesCrlf)

sendRetrieveCommand(c, cmd, key) ==
  flush(write(c, cmd \o SP \o key \o bytesCrlf))

\* The header parser reporting a short line as it is, not quoted.
parseGetResponseHeaderRaw(header) ==
  Bind(Split(header, " "), LAMBDA headerChunks :
    LET fail(e) == [key |-> <<>>, size |-> Zero, err |-> e, Flags |-> Zero,
                    CasID |-> Zero]
    IN IF Len(headerChunks) < 4
       THEN fail(ProtocolError(msgMalformedResponse \o header))
       ELSE Bind(ParseUint(headerChunks[3], maxUint32), LAMBDA flags :
              IF flags.err # Nil THEN fail(flags.err)
              ELSE Bind(ParseUint(headerChunks[4], maxUint64), LAMBDA size :
                     IF size.err # Nil THEN fail(size.err)
                     ELSE Bind(IF Len(headerChunks) = 5
                               THEN ParseUint(headerChunks[5], maxUint64)
                               ELSE [val |-> Zero, err |-> Nil],
                               LAMBDA cas :
                            IF cas.err # Nil THEN fail(cas.err)
                            ELSE [key |-> headerChunks[2], size |-> size.val,
                                  err |-> Nil, Flags |-> flags.val,
                                  CasID |-> cas.val]))))

\* The header parser reporting a bad flags field as a protocol error.
parseGetResponseHeaderWraps(header) ==
  Bind(Split(header, " "), LAMBDA headerChunks :
    LET fail(e) == [key |-> <<>>, size |-> Zero, err |-> e, Flags |-> Zero,
                    CasID |-> Zero]
    IN IF Len(headerChunks) < 4
       THEN fail(ProtocolError(msgMalformedResponse \o Quote(header)))
       ELSE Bind(ParseUint(headerChunks[3], maxUint32), LAMBDA flags :
              IF flags.err # Nil THEN fail(ProtocolError(msgMalformedResponse \o Quote(header)))
              ELSE Bind(ParseUint(headerChunks[4], maxUint64), LAMBDA size :
                     IF size.err # Nil THEN fail(size.err)
                     ELSE Bind(IF Len(headerChunks) = 5
                               THEN ParseUint(headerChunks[5], maxUint64)
                               ELSE [val |-> Zero, err |-> Nil],
                               LAMBDA cas :
                            IF cas.err # Nil THEN fail(cas.err)
                            ELSE [key |-> headerChunks[2], size |-> size.val,
                                  err |-> Nil, Flags |-> flags.val,
                                  CasID |-> cas.val]))))

\* The header parser with flags of 16 bits.
parseGetResponseHeader16(header) ==
  Bind(Split(header, " "), LAMBDA headerChunks :
    LET fail(e) == [key |-> <<>>, size |-> Zero, err |-> e, Flags |-> Zero,
                    CasID |-> Zero]
    IN IF Len(headerChunks) < 4
       THEN fail(ProtocolError(msgMalformedResponse \o Quote(header)))
       ELSE Bind(ParseUint(headerChunks[3], <<"6", "5", "5", "3", "5">>), LAMBDA flags :
              IF flags.err # Nil THEN fail(flags.err)
              ELSE Bind(ParseUint(headerChunks[4], maxUint64), LAMBDA size :
                     IF size.err # Nil THEN fail(size.err)
                     ELSE Bind(IF Len(headerChunks) = 5
                               THEN ParseUint(headerChunks[5], maxUint64)
                               ELSE [val |-> Zero, err |-> Nil],
                               LAMBDA cas :
                            IF cas.err # Nil THEN fail(cas.err)
                            ELSE [key |-> headerChunks[2], size |-> size.val,
                                  err |-> Nil, Flags |-> flags.val,
                                  CasID |-> cas.val]))))

\* The header parser leaving the fifth field alone.
parseGetResponseHeaderNoCas(header) ==
  Bind(Split(header, " "), LAMBDA headerChunks :
    LET fail(e) == [key |-> <<>>, size |-> Zero, err |-> e, Flags |-> Zero,
                    CasID |-> Zero]
    IN IF Len(headerChunks) < 4
       THEN fail(ProtocolError(msgMalformedResponse \o Quote(header)))
       ELSE Bind(ParseUint(headerChunks[3], maxUint32), LAMBDA flags :
              IF flags.err # Nil THEN fail(flags.err)
              ELSE Bind(ParseUint(headerChunks[4], maxUint64), LAMBDA size :
                     IF size.err # Nil THEN fail(size.err)
                     ELSE Bind([val |-> Zero, err |-> Nil],
                               LAMBDA cas :
                            IF cas.err # Nil THEN fail(cas.err)
                            ELSE [key |-> headerChunks[2], size |-> size.val,
                                  err |-> Nil, Flags |-> flags.val,
                                  CasID |-> cas.val]))))

\* VALUE <key> <flags> <bytes> [<cas unique>]
parseGetResponseHeader(header) ==
  Bind(Split(header, " "), LAMBDA headerChunks :
    LET fail(e) == [key |-> <<>>, size |-> Zero, err |-> e, Flags |-> Zero,
                    CasID |-> Zero]
    IN IF Len(headerChunks) < 4
       THEN fail(ProtocolError(msgMalformedResponse \o Quote(header)))
       ELSE Bind(ParseUint(headerChunks[3], maxUint32), LAMBDA flags :
              IF flags.err # Nil THEN fail(flags.err)
              ELSE Bind(ParseUint(headerChunks[4], maxUint64), LAMBDA size :
                     IF size.err # Nil THEN fail(size.err)
                     ELSE Bind(IF Len(headerChunks) = 5
                               THEN ParseUint(headerChunks[5], maxUint64)
                               ELSE [val |-> Zero, err |-> Nil],
                               LAMBDA cas :
                            IF cas.err # Nil THEN fail(cas.err)
                            ELSE [key |-> headerChunks[2], size |-> size.val,
                                  err |-> Nil, Flags |-> flags.val,
                                  CasID |-> cas.val]))))

maxUint64Minus1 == <<"1", "8", "4", "4", "6", "7", "4", "4", "0", "7", "3", "7", "0", "9", "5", "5", "1", "6", "1", "4">>

\* The length of the buffer were size+2 computed without wrapping.
bufferLenNoWrap(size) ==
  IF Len(size) <= 9 THEN ToInt(size) + 2 ELSE -1

\* len of make([]byte, size+2): the sum wraps modulo 2^64; -1 stands for a
\* length the runtime cannot allocate (makeslice panics).
bufferLen(size) ==
  IF size = maxUint64 THEN 1
  ELSE IF size = maxUint64Minus1 THEN 0
  ELSE IF Len(size) <= 9 THEN ToInt(size) + 2
  ELSE -1

\* The payload read without the test of its last two bytes.
receiveGetResponseBodyUnchecked(c, size) ==
  Bind(bufferLen(size), LAMBDA n :
    IF n < 0 THEN [c |-> c, body |-> <<>>, err |-> Nil, panic |-> TRUE]
    ELSE Bind(ioReadFull(c.rd, c.rdEnd, n), LAMBDA r :
           Bind(Step([c EXCEPT !.rd = r.rest], "ReadFull", TRUE, r.err), LAMBDA c1 :
             IF r.err # Nil
             THEN [c |-> c1, body |-> <<>>, err |-> r.err, panic |-> FALSE]
             ELSE [c |-> c1, body |-> r.buf, err |-> Nil, panic |-> FALSE])))

receiveGetResponseBody(c, size) ==
  Bind(bufferLen(size), LAMBDA n :
    IF n < 0 THEN [c |-> c, body |-> <<>>, err |-> Nil, panic |-> TRUE]
    ELSE Bind(ioReadFull(c.rd, c.rdEnd, n), LAMBDA r :
           Bind(Step([c EXCEPT !.rd = r.rest], "ReadFull", TRUE, r.err), LAMBDA c1 :
             IF r.err # Nil
             THEN [c |-> c1, body |-> <<>>, err |-> r.err, panic |-> FALSE]
             ELSE IF ~HasSuffix(r.buf, bytesCrlf)
             THEN [c |-> c1, body |-> <<>>, err |-> ProtocolError(msgCorruptEnd),
                   panic |-> FALSE]
             ELSE [c |-> c1, body |-> r.buf, err |-> Nil, panic |-> FALSE])))

\* A failure of the retrieval that returns the nil response and leaves the
\* slot empty.
failGetResponseSilent(c, op, e) ==
  [c |-> Step(c, op, FALSE, Nil), key |-> <<>>, response |-> NilResponse,
   panic |-> FALSE]

\* A failure of the retrieval that throws away what the stream still holds.
failGetResponseDrains(c, op, e) ==
  [c |-> Step([c EXCEPT !.err = e, !.rd = <<>>], op, FALSE, e), key |-> <<>>,
   response |-> NilResponse, panic |-> FALSE]

\* Sets c.err and returns the nil response.
failGetResponse(c, op, e) ==
  [c |-> Step([c EXCEPT !.err = e], op, FALSE, e), key |-> <<>>,
   response |-> NilResponse, panic |-> FALSE]

receiveGetResponse(conn) ==
  Bind(readLine(conn), LAMBDA h :
    IF h.c.err # Nil
    THEN [c |-> h.c, key |-> <<>>, response |-> NilResponse, panic |-> FALSE]
    ELSE IF h.line = responseEnd THEN failGetResponse(h.c, "end", ErrCacheMiss)
    ELSE Bind(parseGetResponseHeader(h.line), LAMBDA p :
           IF p.err # Nil THEN failGetResponse(h.c, "parseHeader", p.err)
           ELSE Bind(receiveGetResponseBody(h.c, p.size), LAMBDA b :
                  IF b.panic
                  THEN [c |-> b.c, key |-> <<>>, response |-> NilResponse,
                        panic |-> TRUE]
                  ELSE IF b.err # Nil THEN failGetResponse(b.c, "body", b.err)
                  ELSE [c |-> b.c, key |-> p.key,
                        response |-> [nil |-> FALSE,
                                      Value |-> Take(b.body, ToInt(p.size)),
                                      Flags |-> p.Flags, CasID |-> p.CasID],
                        panic |-> FALSE])))

\* What a command returns: the connection after it and the returned values
\* (panic: the call did not return but panicked).
Returned(c, e) ==
  [c |-> c, err |-> e, line |-> <<>>, ok |-> FALSE, value |-> <<>>, flags |-> Zero,
   items |-> {}, num |-> Zero, stats |-> {}, version |-> <<>>, panic |-> FALSE]

Panicked(c) == [Returned(c, Nil) EXCEPT !.panic = TRUE]

\* return c.Err()
ReturnErr(conn) == Bind(Err(conn), LAMBDA d : Returned(d.c, d.err))

\* Get without the read that confirms END.
GetSkipsEnd(c, key) ==
  Bind(receiveGetResponse(sendRetrieveCommand(c, cmdGet, key)), LAMBDA g :
    IF g.panic THEN Panicked(g.c)
    ELSE Bind(Err(g.c), LAMBDA d :
           IF d.err # Nil THEN Returned(d.c, d.err)
           ELSE [Returned(d.c, Nil) EXCEPT !.value = g.response.Value,
                                           !.flags = g.response.Flags]))

\* Get draining the slot before its END read: the read happens on a miss too.
GetReadsAfterMiss(c, key) ==
  Bind(receiveGetResponse(sendRetrieveCommand(c, cmdGet, key)), LAMBDA g :
    IF g.panic THEN Panicked(g.c)
    ELSE Bind(Err(g.c), LAMBDA d0 :
           Bind(readLine(d0.c), LAMBDA endLine :
             Bind(Err(endLine.c), LAMBDA d :
               IF d0.err # Nil THEN Returned(d.c, d0.err)
               ELSE IF d.err # Nil THEN Returned(d.c, d.err)
               ELSE IF endLine.line # responseEnd
               THEN Returned(d.c, ProtocolError(msgCorruptEnd))
               ELSE [Returned(d.c, Nil) EXCEPT !.value = g.response.Value,
                                               !.flags = g.response.Flags]))))

\* Get reading the line after the payload without comparing it with END.
GetIgnoresEndLine(c, key) ==
  Bind(receiveGetResponse(sendRetrieveCommand(c, cmdGet, key)), LAMBDA g :
    IF g.panic THEN Panicked(g.c)
    ELSE Bind(readLine(g.c), LAMBDA endLine :
           Bind(Err(endLine.c), LAMBDA d :
             IF d.err # Nil THEN Returned(d.c, d.err)
             ELSE IF g.response.nil THEN Panicked(d.c)
             ELSE [Returned(d.c, Nil) EXCEPT !.value = g.response.Value,
                                             !.flags = g.response.Flags])))

Get(c, key) ==
  Bind(receiveGetResponse(sendRetrieveCommand(c, cmdGet, key)), LAMBDA g :
    IF g.panic THEN Panicked(g.c)
    ELSE Bind(readLine(g.c), LAMBDA endLine :
           Bind(Err(endLine.c), LAMBDA d :
             IF d.err # Nil THEN Returned(d.c, d.err)
             ELSE IF endLine.line # responseEnd
             THEN Returned(d.c, ProtocolError(msgCorruptEnd))
             ELSE IF g.response.nil THEN Panicked(d.c)
             ELSE [Returned(d.c, Nil) EXCEPT !.value = g.response.Value,
                                             !.flags = g.response.Flags])))

RECURSIVE getsLoopSurfacesMiss(_, _)
\* The loop of Gets returning the error of END like any other.
getsLoopSurfacesMiss(conn, m) ==
  Bind(receiveGetResponse(conn), LAMBDA g :
    IF g.panic THEN Panicked(g.c)
    ELSE Bind(Err(g.c), LAMBDA d :
           IF d.err # Nil
           THEN Returned(d.c, d.err)
           ELSE Bind(MapPut(m, g.key, g.response), LAMBDA m1 :
                  getsLoopSurfacesMiss(d.c, m1))))

RECURSIVE getsLoopEndsOnError(_, _)
\* The loop of Gets taking any error for the end of the items.
getsLoopEndsOnError(conn, m) ==
  Bind(receiveGetResponse(conn), LAMBDA g :
    IF g.panic THEN Panicked(g.c)
    ELSE Bind(Err(g.c), LAMBDA d :
           IF d.err # Nil
           THEN [Returned(d.c, Nil) EXCEPT !.items = m]
           ELSE Bind(MapPut(m, g.key, g.response), LAMBDA m1 :
                  getsLoopEndsOnError(d.c, m1))))

RECURSIVE getsLoop(_, _)
getsLoop(conn, m) ==
  Bind(receiveGetResponse(conn), LAMBDA g :
    IF g.panic THEN Panicked(g.c)
    ELSE Bind(Err(g.c), LAMBDA d :
           IF d.err # Nil
           THEN IF d.err = ErrCacheMiss
                THEN [Returned(d.c, Nil) EXCEPT !.items = m]
                ELSE Returned(d.c, d.err)
           ELSE Bind(MapPut(m, g.key, g.response), LAMBDA m1 : getsLoop(d.c, m1))))

Gets(c, keys) ==
  getsLoop(sendRetrieveCommand(c, cmdGets, Join(keys, SP)), {})

(***************************************************************************)
(* Storage, deletion, counters, touch.                                     *)
(***************************************************************************)
Option(noreply) == IF noreply THEN optionNoreply ELSE <<>>

\* The storage command announcing the payload with its CR LF counted in.
sendStorageCommandCountsCrlf(c, command, key, value, flags, exptime, casid, noreply) ==
  LET head == command \o SP \o key \o SP \o Itoa(flags) \o SP \o Itoa(exptime)
                \o SP \o Itoa(Len(value) + 2)
      line == IF command = cmdCas
              THEN head \o SP \o Itoa(casid) \o SP \o Option(noreply) \o bytesCrlf
              ELSE head \o SP \o Option(noreply) \o bytesCrlf
  IN Bind(flush(write(write(write(c, line), value), bytesCrlf)), LAMBDA c1 :
       IF ~noreply THEN ReturnErr(receiveCheckReply(c1)) ELSE ReturnErr(c1))

sendStorageCommand(c, command, key, value, flags, exptime, casid, noreply) ==
  LET head == command \o SP \o key \o SP \o Itoa(flags) \o SP \o Itoa(exptime)
                \o SP \o Itoa(Len(value))
      line == IF command = cmdCas
              THEN head \o SP \o Itoa(casid) \o SP \o Option(noreply) \o bytesCrlf
              ELSE head \o SP \o Option(noreply) \o bytesCrlf
  IN Bind(flush(write(write(write(c, line), value), bytesCrlf)), LAMBDA c1 :
       IF ~noreply THEN ReturnErr(receiveCheckReply(c1)) ELSE ReturnErr(c1))

Delete(c, key, noreply) ==
  Bind(flush(write(c, cmdDelete \o SP \o key \o SP \o Option(noreply) \o bytesCrlf)),
       LAMBDA c1 :
         IF ~noreply THEN ReturnErr(receiveCheckReply(c1)) ELSE ReturnErr(c1))

\* The counter command reporting a reply that is no number as a protocol
\* error.
executeIncrDecrCommandStrict(c, command, key, value, noreply) ==
  Bind(flush(write(c, command \o SP \o key \o SP \o Itoa(value) \o SP
                        \o Option(noreply) \o bytesCrlf)),
       LAMBDA c1 :
         IF noreply THEN ReturnErr(c1)
         ELSE Bind(receiveReply(c1), LAMBDA r :
                Bind(Err(checkReply(r.c, r.line).c), LAMBDA d :
                  IF d.err # Nil THEN Returned(d.c, d.err)
                  ELSE Bind(ParseUint(r.line, maxUint64), LAMBDA newValue :
                         IF newValue.err # Nil
                         THEN Returned(d.c, ProtocolError(msgUnknownReply \o r.line))
                         ELSE [Returned(d.c, Nil) EXCEPT !.num = newValue.val]))))

executeIncrDecrCommand(c, command, key, value, noreply) ==
  Bind(flush(write(c, command \o SP \o key \o SP \o Itoa(value) \o SP
                        \o Option(noreply) \o bytesCrlf)),
       LAMBDA c1 :
         IF noreply THEN ReturnErr(c1)
         ELSE Bind(receiveReply(c1), LAMBDA r :
                Bind(Err(checkReply(r.c, r.line).c), LAMBDA d :
                  IF d.err # Nil THEN Returned(d.c, d.err)
                  ELSE Bind(ParseUint(r.line, maxUint64), LAMBDA newValue :
                         IF newValue.err # Nil THEN Returned(d.c, newValue.err)
                         ELSE [Returned(d.c, Nil) EXCEPT !.num = newValue.val]))))

\* Touch reading a reply whether or not noreply was asked.
TouchAlwaysReads(c, key, exptime, noreply) ==
  ReturnErr(receiveCheckReply(
    flush(write(c, cmdTouch \o SP \o key \o SP \o Itoa(exptime) \o SP
                     \o Option(noreply) \o bytesCrlf))))

Touch(c, key, exptime, noreply) ==
  Bind(flush(write(c, cmdTouch \o SP \o key \o SP \o Itoa(exptime) \o SP
                        \o Option(noreply) \o bytesCrlf)),
       LAMBDA c1 :
         IF noreply THEN ReturnErr(c1) ELSE ReturnErr(receiveCheckReply(c1)))

(***************************************************************************)
(* Statistics and the other commands.                                      *)
(***************************************************************************)
RECURSIVE statsLoopSkipsOthers(_, _)
\* The loop of Stats passing over the lines that are no STAT lines.
statsLoopSkipsOthers(conn, m) ==
  Bind(readLine(conn), LAMBDA l :
    Bind(Err(l.c), LAMBDA d :
      IF d.err # Nil THEN Returned(d.c, d.err)
      ELSE IF l.line = responseEnd THEN [Returned(d.c, Nil) EXCEPT !.stats = m]
      ELSE IF ~HasPrefix(l.line, statPrefix) THEN statsLoopSkipsOthers(d.c, m)
      ELSE Bind(SplitN(Drop(l.line, 5), " ", 3), LAMBDA data :
             IF Len(data) < 2 THEN Panicked(d.c)
             ELSE Bind(MapPut(m, data[1], data[2]), LAMBDA m1 :
                    statsLoopSkipsOthers(d.c, m1)))))

RECURSIVE statsLoop(_, _)
statsLoop(conn, m) ==
  Bind(readLine(conn), LAMBDA l :
    Bind(Err(l.c), LAMBDA d :
      IF d.err # Nil THEN Returned(d.c, d.err)
      ELSE IF l.line = responseEnd THEN [Returned(d.c, Nil) EXCEPT !.stats = m]
      ELSE IF ~HasPrefix(l.line, statPrefix)
      THEN Returned(d.c, ProtocolError(msgMalformedStats))
      ELSE Bind(SplitN(Drop(l.line, 5), " ", 3), LAMBDA data :
             IF Len(data) < 2 THEN Panicked(d.c)
             ELSE Bind(MapPut(m, data[1], data[2]), LAMBDA m1 : statsLoop(d.c, m1)))))

Stats(c, statsKey) ==
  statsLoop(flush(write(c, cmdStats \o SP \o statsKey \o bytesCrlf)), {})

\* FlushAll writing its delay whatever its sign.
FlushAllAlwaysDelay(c, delay, noreply) ==
  LET line == cmdFlushAll \o SP \o Itoa(delay) \o SP \o Option(noreply) \o bytesCrlf
  IN Bind(flush(write(c, line)), LAMBDA c1 :
       IF noreply THEN ReturnErr(c1) ELSE ReturnErr(receiveCheckReply(c1)))

FlushAll(c, delay, noreply) ==
  LET line == IF delay >= 0
              THEN cmdFlushAll \o SP \o Itoa(delay) \o SP \o Option(noreply) \o bytesCrlf
              ELSE cmdFlushAll \o SP \o Option(noreply) \o bytesCrlf
  IN Bind(flush(write(c, line)), LAMBDA c1 :
       IF noreply THEN ReturnErr(c1) ELSE ReturnErr(receiveCheckReply(c1)))

\* Version without the classification of its reply.
VersionUnclassified(c) ==
  Bind(receiveReply(flush(write(c, cmdVersion \o bytesCrlf))), LAMBDA r :
    Bind(Err(r.c), LAMBDA d :
      IF d.err # Nil THEN Returned(d.c, d.err)
      ELSE IF HasPrefix(r.line, bytesVersion)
      THEN [Returned(d.c, Nil) EXCEPT !.version = Drop(r.line, Len(bytesVersion))]
      ELSE Returned(d.c, ProtocolError(msgUnknownReply \o r.line))))

Version(c) ==
  Bind(receiveReply(flush(write(c, cmdVersion \o bytesCrlf))), LAMBDA r :
    Bind(Err(checkReply(r.c, r.line).c), LAMBDA d :
      IF d.err # Nil THEN Returned(d.c, d.err)
      ELSE IF HasPrefix(r.line, bytesVersion)
      THEN [Returned(d.c, Nil) EXCEPT !.version = Drop(r.line, Len(bytesVersion))]
      ELSE Returned(d.c, ProtocolError(msgUnknownReply \o r.line))))

\* What net.Conn.Close may return besides nil.
NetCloseError == MkErr("NetCloseError", <<>>, "")

\* Close that leaves netConn and rw in place.
CloseKeepsConn(c, closeErr) ==
  IF ~c.net.netConn THEN Returned(c, Nil)
  ELSE Returned(Step([c EXCEPT !.net.closes = @ + 1], "Close", TRUE, closeErr), closeErr)

\* Close: nothing when netConn is nil; otherwise netConn.Close(), whose
\* result closeErr is returned, and rw and netConn become nil.
Close(c, closeErr) ==
  IF ~c.net.netConn THEN Returned(c, Nil)
  ELSE Returned(Step([c EXCEPT !.net = [netConn |-> FALSE, rw |-> FALSE,
                                        closes |-> @.closes + 1]],
                     "Close", TRUE, closeErr),
                closeErr)

\* Quit that closes the connection itself.
QuitCloses(c) ==
  Bind(ReturnErr(flush(write(c, cmdQuit \o bytesCrlf))), LAMBDA r :
    [Close(r.c, Nil) EXCEPT !.err = r.err])

Quit(c) == ReturnErr(flush(write(c, cmdQuit \o bytesCrlf)))

\* Before the first call on a connection: no call, no error returned.
NoCall == [op |-> "new", err |-> Nil]

(***************************************************************************)
(* Pool: a buffered channel of idle connections.  The connections are      *)
(* numbered in the order DialContext made them; 0 stands for a nil Conn.   *)
(***************************************************************************)
MaxIdle == 2

MaxConns == 3

NumProcs == 2

Procs == 1..NumProcs

ConnIds == 1..MaxConns

\* ctx.Err() of a cancelled context.
ctxCanceled == MkErr("context.Canceled", <<>>, "")

\* What DialContext may return instead of a connection.
DialError == MkErr("DialError", <<>>, "")

\* A caller that is in no call on the pool.
Resting == [at |-> "idle", cancelled |-> FALSE, arg |-> 0, idle |-> <<>>]

NewPool(maxIdleConns) ==
  [maxIdleConns |-> maxIdleConns,
   idleConns |-> <<>>,
   dials |-> 0,
   conns |-> [i \in ConnIds |-> NetOpen],
   held |-> [q \in Procs |-> {}],
   pc |-> [q \in Procs |-> Resting]]

NoPool == NewPool(0)

NoPoolCall ==
  [proc |-> 0, op |-> "new", cancelled |-> FALSE, arg |-> 0, idle |-> <<>>,
   idleAfter |-> <<>>, conn |-> 0, err |-> Nil, dials |-> 0, closes |-> <<>>]

\* A receive that leaves the value in the channel.
chanPeek(ch) == [val |-> Head(ch), ch |-> ch]

\* c := <-ch on a channel that holds a value.
chanRecv(ch) == [val |-> Head(ch), ch |-> Tail(ch)]

\* ch <- v on a channel with room.
chanSend(ch, v) == Append(ch, v)

\* The select of GetContext that never takes the receive.
selectGetContextNoRecv(idleConns, cancelled) ==
  IF cancelled THEN {"done"} ELSE {"default"}

\* The select of GetContext: the cases that can proceed, one of which the
\* runtime chooses; default only when none can.
selectGetContext(idleConns, cancelled) ==
  LET ready == (IF cancelled THEN {"done"} ELSE {})
                 \cup (IF Len(idleConns) > 0 THEN {"recv"} ELSE {})
  IN IF ready = {} THEN {"default"} ELSE ready

\* The select of Put sending whatever the channel holds.
selectPutUnbounded(idleConns, maxIdleConns) == {"send"}

\* The select of Put: the send when the channel has room (no receiver ever
\* waits on it), default otherwise.
selectPut(idleConns, maxIdleConns) ==
  IF Len(idleConns) < maxIdleConns THEN {"send"} ELSE {"default"}

\* p.DialContext(ctx): a new connection, or an error and no connection.
DialContext(pl, ok) ==
  IF ok
  THEN [pool |-> [pl EXCEPT !.dials = @ + 1], conn |-> pl.dials + 1, err |-> Nil]
  ELSE [pool |-> pl, conn |-> 0, err |-> DialError]

(***************************************************************************)
(* Inputs: what the peer may have put on the response stream, and the      *)
(* arguments the commands are called with.                                 *)
(***************************************************************************)
Line(x) == x \o bytesCrlf

Words(ws) == Join(ws, SP)

kwValue == <<"V", "A", "L", "U", "E">>

kwStat == <<"S", "T", "A", "T">>

lineClientErr == replyClientErrorPrefix \o <<"a", " ", "b">>

lineServerErr == replyServerErrorPrefix \o <<"a", " ", "b">>

lineNumber == <<"4", "4">>

lineOther == <<"z", "z">>

lineVersion == bytesVersion \o <<"1", ".", "6">>

\* VALUE k 5 2 / ab
valueBlock == Line(Words(<<kwValue, <<"k">>, <<"5">>, <<"2">>>>)) \o Line(<<"a", "b">>)

\* VALUE j 0 2 7 / a payload that is itself CR LF
valueBlockCas ==
  Line(Words(<<kwValue, <<"j">>, <<"0">>, <<"2">>, <<"7">>>>)) \o Line(bytesCrlf)

valueShortHeader == Line(Words(<<kwValue, <<"k">>, <<"0">>>>))

valueBadFlags == Line(Words(<<kwValue, <<"k">>, <<"x">>, <<"2">>>>)) \o Line(<<"a", "b">>)

\* The declared length is one byte short of the payload.
valueBadEnd == Line(Words(<<kwValue, <<"k">>, <<"0">>, <<"1">>>>)) \o Line(<<"a", "b">>)

statLine == Line(Words(<<kwStat, <<"p", "i", "d">>, <<"1">>>>))

statLine2 == Line(Words(<<kwStat, <<"u", "p">>, <<"2">>>>))

\* A value that itself contains a space.
statSpaced == Line(Words(<<kwStat, <<"u", "p">>, <<"2">>, <<"3">>>>))

statNoValue == Line(Words(<<kwStat, <<"p", "i", "d">>>>))

getHit == valueBlock \o Line(responseEnd)

getsTwo == valueBlock \o valueBlockCas \o Line(responseEnd)

statsReply == statLine \o statLine2 \o Line(responseEnd)

\* The single reply lines a server sends.
ReplyLines ==
  {replyStored, replyNotStored, replyExists, replyNotFound, replyDeleted,
   replyTouched, replyOk, replyError, lineClientErr, lineServerErr,
   responseEnd, lineNumber, lineOther, lineVersion}

\* Complete replies, each ending with CR LF.
WellFormedChunks == {Line(l) : l \in ReplyLines} \cup {getHit, getsTwo, statsReply}

\* Replies that are cut short or break the protocol.
MalformedChunks ==
  {valueBlock, valueShortHeader, valueBadFlags, valueBadEnd \o Line(responseEnd),
   statNoValue \o Line(responseEnd), statSpaced \o Line(responseEnd), lineOther,
   Line(<<>>)}

Chunks == WellFormedChunks \cup MalformedChunks

\* What may follow the first reply on the stream.
Followers == {Line(replyStored), Line(responseEnd), Line(<<"7">>), getHit}

\* The streams: a first chunk, then followers, MaxChunks chunks at most.
Scripts ==
  {<<>>} \cup
  UNION {{<<a>> \o f : a \in Chunks, f \in [1..n -> Followers]} : n \in 0..(MaxChunks - 1)}

Key == <<"k">>

KeyLists == {<<Key>>, <<Key, <<"j">>>>}

Values == {<<"a", "b">>}

\* Streams tried against a failing transport.
ShortScripts == {<<>>, <<lineOther>>, <<Line(replyStored)>>, <<valueBlock>>}

StorageCommands == {cmdSet, cmdAdd, cmdReplace, cmdAppend, cmdPrepend, cmdCas}

NoArg == [cmd |-> <<>>, key |-> <<>>, keys |-> <<>>, value |-> <<>>, flags |-> 0,
          exptime |-> 0, casid |-> 0, n |-> 0, bytes |-> <<>>]

\* All sequences over S of length n at most.
SeqsUpTo(S, n) == UNION {[1..k -> S] : k \in 0..n}

\* Messages of CLIENT_ERROR / SERVER_ERROR lines.
Msgs == SeqsUpTo({"a", " "}, MaxMsgLen)

\* Decimal numbers, as the counter commands' replies.
Numbers == SeqsUpTo({"0", "7"}, MaxMsgLen) \ {<<>>}

\* Lines that resemble a classified reply without being one.
OtherLines ==
  {<<>>, responseEnd, lineNumber, Zero, maxUint64, lineOther, lineVersion,
   Take(replyClientErrorPrefix, 12), Take(replyServerErrorPrefix, 12) \o <<"a">>,
   <<"s", "t", "o", "r", "e", "d">>, replyStored \o <<"X">>, replyStored \o SP,
   SP \o replyError, replyError \o SP, <<"-", "1">>,
   Words(<<kwValue, <<"k">>, <<"0">>, <<"2">>>>)}

\* The lines the classifier is tried on.
Lines ==
  {replyStored, replyNotStored, replyExists, replyNotFound, replyDeleted,
   replyTouched, replyOk, replyError}
    \cup {replyClientErrorPrefix \o m : m \in Msgs}
    \cup {replyServerErrorPrefix \o m : m \in Msgs}
    \cup Numbers
    \cup OtherLines

\* Streams the primitives are tried on.
PrimScripts ==
  {<<>>, <<lineOther>>, <<Line(replyStored), Line(replyExists)>>,
   <<Line(lineClientErr), Line(lineOther)>>}

(***************************************************************************)
(* The state machine: one action per public command of TextConn.  Each     *)
(* action is the whole call; log and out restart with it, and ret keeps    *)
(* what was called, the connection before the call and what came back.     *)
(***************************************************************************)
Init ==
  /\ \/ /\ \E script \in Scripts : rd = Concat(script)
        /\ rdEnd = EOF
        /\ wfail = FALSE
     \/ /\ \E script \in ShortScripts : rd = Concat(script)
        /\ rdEnd = NetReadError
        /\ wfail = FALSE
     \/ /\ \E script \in ShortScripts : rd = Concat(script)
        /\ rdEnd = EOF
        /\ wfail = TRUE
  /\ err = Nil
  /\ wbuf = <<>>
  /\ werr = Nil
  /\ out = <<>>
  /\ net = NetOpen
  /\ log = <<>>
  /\ pool = NoPool
  /\ pret = NoPoolCall
  /\ ret = [op |-> "new", arg |-> NoArg, noreply |-> FALSE,
            pre |-> [err |-> Nil, rd |-> rd, wbuf |-> <<>>, werr |-> Nil,
                     net |-> NetOpen, after |-> NoCall],
            res |-> [Returned([err |-> Nil], Nil) EXCEPT !.c = <<>>]]

\* The connection a call starts from.
Start == [Conn EXCEPT !.out = <<>>, !.log = <<>>]

\* The call op(arg) ran and produced res; after is what is remembered of
\* the call before it.
CallAfter(op, arg, noreply, res, after) ==
  /\ ~ret.res.panic
  /\ err' = res.c.err
  /\ rd' = res.c.rd
  /\ wbuf' = res.c.wbuf
  /\ werr' = res.c.werr
  /\ out' = res.c.out
  /\ log' = res.c.log
  /\ net' = res.c.net
  /\ UNCHANGED <<rdEnd, wfail, pool, pret>>
  /\ ret' = [op |-> op, arg |-> arg, noreply |-> noreply,
             pre |-> [err |-> err, rd |-> rd, wbuf |-> wbuf, werr |-> werr,
                      net |-> net, after |-> after],
             res |-> [res EXCEPT !.c = <<>>]]

\* The call op(arg) ran and produced res.
Call(op, arg, noreply, res) == CallAfter(op, arg, noreply, res, NoCall)

DoGet == Call("Get", [NoArg EXCEPT !.key = Key], FALSE, Get(Start, Key))

DoGets ==
  \E keys \in KeyLists :
    Call("Gets", [NoArg EXCEPT !.keys = keys], FALSE, Gets(Start, keys))

\* Set, Add, Replace, Append, Prepend and CompareAndSwap.
DoStorage ==
  \E command \in StorageCommands, value \in Values, noreply \in BOOLEAN :
    LET flags == IF command \in {cmdAppend, cmdPrepend} THEN 0 ELSE 5
        exptime == IF command \in {cmdAppend, cmdPrepend} THEN 0 ELSE 60
        casid == IF command = cmdCas THEN 7 ELSE 0
    IN Call("Storage",
            [NoArg EXCEPT !.cmd = command, !.key = Key, !.value = value,
                          !.flags = flags, !.exptime = exptime, !.casid = casid],
            noreply,
            sendStorageCommand(Start, command, Key, value, flags, exptime, casid, noreply))

DoDelete ==
  \E noreply \in BOOLEAN :
    Call("Delete", [NoArg EXCEPT !.key = Key], noreply, Delete(Start, Key, noreply))

\* Increment and Decrement.
DoIncrDecr ==
  \E command \in {cmdIncr, cmdDecr}, noreply \in BOOLEAN :
    Call("IncrDecr", [NoArg EXCEPT !.cmd = command, !.key = Key, !.n = 2], noreply,
         executeIncrDecrCommand(Start, command, Key, 2, noreply))

DoTouch ==
  \E noreply \in BOOLEAN :
    Call("Touch", [NoArg EXCEPT !.key = Key, !.exptime = 60], noreply,
         Touch(Start, Key, 60, noreply))

DoStats ==
  \E statsKey \in {<<>>} :
    Call("Stats", [NoArg EXCEPT !.key = statsKey], FALSE, Stats(Start, statsKey))

DoFlushAll ==
  \E delay \in {-1, 0}, noreply \in BOOLEAN :
    Call("FlushAll", [NoArg EXCEPT !.n = delay], noreply, FlushAll(Start, delay, noreply))

DoVersion == Call("Version", NoArg, FALSE, Version(Start))

DoQuit == Call("Quit", NoArg, FALSE, Quit(Start))

Next ==
  \/ DoGet
  \/ DoGets
  \/ DoStorage
  \/ DoDelete
  \/ DoIncrDecr
  \/ DoTouch
  \/ DoStats
  \/ DoFlushAll
  \/ DoVersion
  \/ DoQuit

Spec == Init /\ [][Next]_vars

(***************************************************************************)
(* The stream primitives and the sticky slot on their own, called in any   *)
(* order (as code of the package may call them).                           *)
(***************************************************************************)
InitPrim ==
  /\ \E script \in PrimScripts : rd = Concat(script)
  /\ rdEnd \in {EOF, NetReadError}
  /\ wfail \in BOOLEAN
  /\ err = Nil
  /\ wbuf = <<>>
  /\ werr = Nil
  /\ out = <<>>
  /\ net = NetOpen
  /\ log = <<>>
  /\ pool = NoPool
  /\ pret = NoPoolCall
  /\ ret = [op |-> "new", arg |-> NoArg, noreply |-> FALSE,
            pre |-> [err |-> Nil, rd |-> rd, wbuf |-> <<>>, werr |-> Nil,
                     net |-> NetOpen, after |-> NoCall],
            res |-> [Returned([err |-> Nil], Nil) EXCEPT !.c = <<>>]]

CallReadLine ==
  \E r \in {readLine(Start)} :
    Call("readLine", NoArg, FALSE, [Returned(r.c, Nil) EXCEPT !.line = r.line])

CallWrite ==
  \E p \in {<<"w", "\r", "\n">>, cmdVersion \o bytesCrlf} :
    Call("write", [NoArg EXCEPT !.bytes = p], FALSE, Returned(write(Start, p), Nil))

CallFlush == Call("flush", NoArg, FALSE, Returned(flush(Start), Nil))

CallErr == Call("Err", NoArg, FALSE, ReturnErr(Start))

CallReceiveCheckReply ==
  Call("receiveCheckReply", NoArg, FALSE, Returned(receiveCheckReply(Start), Nil))

NextPrim ==
  \/ CallReadLine
  \/ CallWrite
  \/ CallFlush
  \/ CallErr
  \/ CallReceiveCheckReply

SpecPrim == InitPrim /\ [][NextPrim]_vars

(***************************************************************************)
(* The reply classifier on its own: checkReply applied to every line of    *)
(* Lines, with the sticky slot empty or already holding an error.          *)
(***************************************************************************)
InitReply ==
  /\ rd = <<>>
  /\ rdEnd = EOF
  /\ wfail = FALSE
  /\ err \in {Nil, NetReadError}
  /\ wbuf = <<>>
  /\ werr = Nil
  /\ out = <<>>
  /\ net = NetOpen
  /\ log = <<>>
  /\ pool = NoPool
  /\ pret = NoPoolCall
  /\ ret = [op |-> "new", arg |-> NoArg, noreply |-> FALSE,
            pre |-> [err |-> err, rd |-> <<>>, wbuf |-> <<>>, werr |-> Nil,
                     net |-> NetOpen, after |-> NoCall],
            res |-> [Returned([err |-> Nil], Nil) EXCEPT !.c = <<>>]]

CallCheckReply ==
  \E reply \in Lines :
    \E k \in {checkReply(Start, reply)} :
      Call("checkReply", [NoArg EXCEPT !.bytes = reply], FALSE,
           [Returned(k.c, Nil) EXCEPT !.ok = k.ok])

NextReply ==
  \/ CallCheckReply
  \/ CallErr

SpecReply == InitReply /\ [][NextReply]_vars

(***************************************************************************)
(* The parsers of the multi-line replies on their own: receiveGetResponse, *)
(* Get, Gets and Stats on streams that start with a VALUE block (good,     *)
(* odd or broken) or with STAT lines.                                      *)
(***************************************************************************)
MaxBlocks == 2

\* A VALUE block as the peer writes it, with the fields it was written from:
\* VALUE <key> <flags> <bytes> [<cas>] CR LF <value> CR LF.
Block(key, flags, cas, value) ==
  [key |-> key, flags |-> flags, cas |-> cas, value |-> value,
   bytes |-> Line(Words(<<kwValue, key, flags, ItoaNat(Len(value))>>
                        \o (IF cas = <<>> THEN <<>> ELSE <<cas>>)))
             \o Line(value)]

twoPow16 == <<"6", "5", "5", "3", "6">>

twoPow32 == <<"4", "2", "9", "4", "9", "6", "7", "2", "9", "6">>

twoPow64 == <<"1", "8", "4", "4", "6", "7", "4", "4", "0", "7", "3", "7", "0", "9", "5", "5", "1", "6", "1", "6">>

\* Blocks a server may send for the keys k, j and e.
GetsBlocks ==
  {Block(Key, <<"5">>, <<>>, <<"a", "b">>),
   Block(<<"j">>, Zero, <<"7">>, bytesCrlf),
   Block(<<"e">>, Zero, <<>>, responseEnd)}

\* Blocks whose numbers are decimal: flags up to 2^32, CAS ids up to 2^64 - 1.
DecimalBlocks ==
  GetsBlocks \cup
  {Block(Key, <<"6", "5", "5", "3", "5">>, <<>>, <<"a", "b">>),
   Block(Key, twoPow16, <<>>, <<"a", "b">>),
   Block(Key, maxUint32, <<>>, <<"a", "b">>),
   Block(Key, twoPow32, <<>>, <<"a", "b">>),
   Block(<<"j">>, Zero, <<"0", "0", "7">>, <<>>),
   Block(<<"j">>, Zero, maxUint64, <<"a">>),
   Block(<<"j">>, Zero, twoPow64, <<"a">>)}

\* Blocks with a field that is not a decimal number.
NonDecimalBlocks ==
  {Block(Key, <<"x">>, <<>>, <<"a", "b">>),
   Block(Key, <<"-", "1">>, <<>>, <<"a", "b">>),
   Block(Key, <<>>, <<>>, <<"a", "b">>),
   Block(Key, <<"x">>, <<"7">>, <<"a", "b">>),
   Block(Key, Zero, <<"x">>, <<"a", "b">>),
   Block(Key, Zero, <<"7", "x">>, <<"a", "b">>)}

\* Header lines that are no VALUE header of 4 or 5 fields; each is followed
\* on the stream by what would be its payload.
OddHeaders ==
  {Words(<<kwValue, Key, Zero>>),
   kwValue,
   lineOther,
   <<>>,
   <<"a", "\"", "b">>,
   <<"a", "\\", " ", "\r", "b">>,
   Words(<<kwValue, Key, Zero, <<"x">>>>),
   Words(<<kwValue, Key, Zero, <<"2">>, <<"7">>, <<"9">>>>),
   Words(<<<<"X", "Y", "Z">>, Key, Zero, <<"2">>>>),
   Words(<<<<"X", "Y", "Z">>, Key, Zero, <<"2">>, <<"7">>>>),
   Words(<<replyServerErrorPrefix, <<"b">>, <<"c">>>>)}

\* Blocks whose payload does not end where the header says.
BrokenBodies ==
  {Line(Words(<<kwValue, Key, Zero, <<"1">>>>)) \o Line(<<"a", "b">>),
   Line(Words(<<kwValue, Key, Zero, <<"3">>>>)) \o Line(<<"a", "b">>),
   Line(Words(<<kwValue, Key, Zero, <<"2">>>>)) \o <<"a", "b", "\r", "x">>}

\* What follows the first block.
Tails == {<<>>, Line(responseEnd), Line(lineOther), <<"N", "O">>}

SeqsOfBlocks == UNION {[1..n -> GetsBlocks] : n \in 0..MaxBlocks}

BlockBytes(f) == Concat([i \in 1..Len(f) |-> f[i].bytes])

\* A STAT line with the key and the value it was written from.
StatEntry(key, value) ==
  [key |-> key, value |-> value, bytes |-> Line(Words(<<kwStat, key, value>>))]

StatEntries ==
  {StatEntry(<<"p", "i", "d">>, <<"1">>),
   StatEntry(<<"u", "p">>, <<"2">>),
   StatEntry(<<"p", "i", "d">>, <<"3">>)}

SeqsOfStats == UNION {[1..n -> StatEntries] : n \in 0..MaxBlocks}

\* Stats replies with a line that is no STAT line, or without END.
BrokenStats ==
  {statLine \o Line(lineOther) \o Line(responseEnd),
   Line(<<"S", "T", "A", "T">>) \o Line(responseEnd),
   Line(<<"s", "t", "a", "t", " ", "a", " ", "1">>) \o Line(responseEnd),
   statLine \o Line(replyError) \o Line(responseEnd),
   statNoValue \o Line(responseEnd),
   Line(statPrefix) \o Line(responseEnd),
   statSpaced \o Line(responseEnd),
   statLine}

\* Headers declaring a length whose sum with 2 passes 2^64, and what may
\* follow them.
WrappingHeaders ==
  {Words(<<kwValue, Key, Zero, maxUint64Minus1>>), Words(<<kwValue, Key, Zero, maxUint64>>)}

WrappingTails ==
  {<<>>, <<"a">>, bytesCrlf, Line(<<"a", "b">>) \o Line(responseEnd), Line(responseEnd)}

ParseScripts ==
  {<<>>}
    \cup {Line(h) \o t : h \in WrappingHeaders, t \in WrappingTails}
    \cup {b.bytes \o t : b \in DecimalBlocks \cup NonDecimalBlocks, t \in Tails}
    \cup {Line(h) \o Line(<<"a", "b">>) \o t : h \in OddHeaders, t \in Tails}
    \cup {b \o t : b \in BrokenBodies, t \in Tails}
    \cup {BlockBytes(f) \o Line(responseEnd) \o t : f \in SeqsOfBlocks,
                                                     t \in {<<>>, Line(replyStored)}}
    \cup {BlockBytes(f) \o Line(responseEnd) : f \in SeqsOfStats}
    \cup BrokenStats

InitParse ==
  /\ rd \in ParseScripts
  /\ rdEnd = EOF
  /\ wfail = FALSE
  /\ err = Nil
  /\ wbuf = <<>>
  /\ werr = Nil
  /\ out = <<>>
  /\ net = NetOpen
  /\ log = <<>>
  /\ pool = NoPool
  /\ pret = NoPoolCall
  /\ ret = [op |-> "new", arg |-> NoArg, noreply |-> FALSE,
            pre |-> [err |-> Nil, rd |-> rd, wbuf |-> <<>>, werr |-> Nil,
                     net |-> NetOpen, after |-> NoCall],
            res |-> [Returned([err |-> Nil], Nil) EXCEPT !.c = <<>>]]

\* receiveGetResponse returns a key and a response: res.line is the key,
\* res.ok tells that the response is not nil, res.num is its CasID.
CallReceiveGetResponse ==
  \E g \in {receiveGetResponse(Start)} :
    Call("receiveGetResponse", NoArg, FALSE,
         [Returned(g.c, Nil) EXCEPT !.line = g.key, !.ok = ~g.response.nil,
                                    !.value = g.response.Value,
                                    !.flags = g.response.Flags,
                                    !.num = g.response.CasID,
                                    !.panic = g.panic])

NextParse ==
  \/ CallReceiveGetResponse
  \/ CallErr
  \/ DoGet
  \/ DoGets
  \/ DoStats

SpecParse == InitParse /\ [][NextParse]_vars

(***************************************************************************)
(* The commands answered by one line, on every kind of line: tokens,       *)
(* numbers in and out of range, version lines, and lines of no kind.       *)
(***************************************************************************)
OneLineReplies ==
  {replyStored, replyNotStored, replyExists, replyNotFound, replyDeleted,
   replyTouched, replyOk, replyError, lineClientErr, lineServerErr,
   lineNumber, Zero, <<"0", "0", "7">>, maxUint64, twoPow64,
   <<"-", "1">>, <<"+", "5">>, <<"4", "x">>, <<>>, lineOther,
   lineVersion, bytesVersion, Take(bytesVersion, 7),
   bytesVersion \o <<"1", " ", "2">>, <<"v", "e", "r", "s", "i", "o", "n", " ", "1">>}

InitOneLine ==
  /\ \E l \in OneLineReplies, t \in {<<>>, Line(replyStored)} : rd = Line(l) \o t
  /\ rdEnd = EOF
  /\ wfail = FALSE
  /\ err = Nil
  /\ wbuf = <<>>
  /\ werr = Nil
  /\ out = <<>>
  /\ net = NetOpen
  /\ log = <<>>
  /\ pool = NoPool
  /\ pret = NoPoolCall
  /\ ret = [op |-> "new", arg |-> NoArg, noreply |-> FALSE,
            pre |-> [err |-> Nil, rd |-> rd, wbuf |-> <<>>, werr |-> Nil,
                     net |-> NetOpen, after |-> NoCall],
            res |-> [Returned([err |-> Nil], Nil) EXCEPT !.c = <<>>]]

NextOneLine ==
  \/ DoIncrDecr
  \/ DoVersion
  \/ DoDelete
  \/ DoTouch
  \/ DoFlushAll

SpecOneLine == InitOneLine /\ [][NextOneLine]_vars

(***************************************************************************)
(* The requests: the storage commands with payloads of every kind (empty,  *)
(* with spaces and line ends inside, longer than the write buffer), and    *)
(* FlushAll with delays of both signs.                                     *)
(***************************************************************************)
Payloads ==
  {<<>>, <<"a">>, <<"a", "b">>, bytesCrlf, <<"a", " ", "\n", "b">>,
   <<"0", "1", "2", "3", "4", "5", "6", "7", "8", "9", "a">>}

Delays == {-2, -1, 0, 1, 30}

InitSend ==
  /\ rd \in {<<>>, Line(replyStored), Line(replyOk) \o Line(replyStored)}
  /\ rdEnd = EOF
  /\ wfail = FALSE
  /\ err = Nil
  /\ wbuf = <<>>
  /\ werr = Nil
  /\ out = <<>>
  /\ net = NetOpen
  /\ log = <<>>
  /\ pool = NoPool
  /\ pret = NoPoolCall
  /\ ret = [op |-> "new", arg |-> NoArg, noreply |-> FALSE,
            pre |-> [err |-> Nil, rd |-> rd, wbuf |-> <<>>, werr |-> Nil,
                     net |-> NetOpen, after |-> NoCall],
            res |-> [Returned([err |-> Nil], Nil) EXCEPT !.c = <<>>]]

\* Set, Add, Replace, Append, Prepend and CompareAndSwap with any payload.
SendStorage ==
  \E command \in StorageCommands, value \in Payloads, exptime \in {-1, 60},
     cas \in {0, 7}, noreply \in BOOLEAN :
    LET plain == command \in {cmdAppend, cmdPrepend}
        flags == IF plain THEN 0 ELSE 5
        exp == IF plain THEN 0 ELSE exptime
        casid == IF command = cmdCas THEN cas ELSE 0
    IN Call("Storage",
            [NoArg EXCEPT !.cmd = command, !.key = Key, !.value = value,
                          !.flags = flags, !.exptime = exp, !.casid = casid],
            noreply,
            sendStorageCommand(Start, command, Key, value, flags, exp, casid, noreply))

SendFlushAll ==
  \E delay \in Delays, noreply \in BOOLEAN :
    Call("FlushAll", [NoArg EXCEPT !.n = delay], noreply, FlushAll(Start, delay, noreply))

NextSend ==
  \/ SendStorage
  \/ SendFlushAll

SpecSend == InitSend /\ [][NextSend]_vars

(***************************************************************************)
(* The life of one connection: commands, Quit and Close in any order.      *)
(* After Close rw is nil, and a command that reaches c.rw with the slot    *)
(* empty dereferences it.                                                  *)
(***************************************************************************)
InitLife ==
  /\ \E script \in PrimScripts \cup {<<Line(lineVersion), Line(replyDeleted)>>} :
       rd = Concat(script)
  /\ rdEnd \in {EOF, NetReadError}
  /\ wfail \in BOOLEAN
  /\ err = Nil
  /\ wbuf = <<>>
  /\ werr = Nil
  /\ out = <<>>
  /\ net = NetOpen
  /\ log = <<>>
  /\ pool = NoPool
  /\ pret = NoPoolCall
  /\ ret = [op |-> "new", arg |-> NoArg, noreply |-> FALSE,
            pre |-> [err |-> Nil, rd |-> rd, wbuf |-> <<>>, werr |-> Nil,
                     net |-> NetOpen, after |-> NoCall],
            res |-> [Returned([err |-> Nil], Nil) EXCEPT !.c = <<>>]]

\* The outcome res of a command on this connection: a panic when rw is nil
\* and the guard on the slot lets the command through to it.
Attached(res) == IF net.rw \/ err # Nil THEN res ELSE Panicked(Start)

LifeQuit == Call("Quit", NoArg, FALSE, Attached(Quit(Start)))

LifeVersion == Call("Version", NoArg, FALSE, Attached(Version(Start)))

LifeDelete ==
  \E noreply \in BOOLEAN :
    Call("Delete", [NoArg EXCEPT !.key = Key], noreply, Attached(Delete(Start, Key, noreply)))

LifeClose ==
  \E closeErr \in {Nil, NetCloseError} :
    Call("Close", NoArg, FALSE, Close(Start, closeErr))

NextLife ==
  \/ LifeQuit
  \/ LifeVersion
  \/ LifeDelete
  \/ LifeClose

SpecLife == InitLife /\ [][NextLife]_vars

(***************************************************************************)
(* Callers of one Pool.  Each call is atomic up to its select; the dial    *)
(* and the close that follow a default case are steps of their own, so     *)
(* that other callers may run in between.                                  *)
(***************************************************************************)
InitPool ==
  /\ rd = <<>>
  /\ rdEnd = EOF
  /\ wfail = FALSE
  /\ err = Nil
  /\ wbuf = <<>>
  /\ werr = Nil
  /\ out = <<>>
  /\ net = NetOpen
  /\ log = <<>>
  /\ ret = [op |-> "new", arg |-> NoArg, noreply |-> FALSE,
            pre |-> [err |-> Nil, rd |-> <<>>, wbuf |-> <<>>, werr |-> Nil,
                     net |-> NetOpen, after |-> NoCall],
            res |-> [Returned([err |-> Nil], Nil) EXCEPT !.c = <<>>]]
  /\ \E maxIdleConns \in 0..MaxIdle : pool = NewPool(maxIdleConns)
  /\ pret = NoPoolCall

\* The call of caller q returned conn and e.
PoolReturn(q, op, call, idleAfter, conn, e, dials, closes) ==
  [proc |-> q, op |-> op, cancelled |-> call.cancelled, arg |-> call.arg,
   idle |-> call.idle, idleAfter |-> idleAfter, conn |-> conn, err |-> e,
   dials |-> dials, closes |-> closes]

\* GetContext up to the end of its select.
GetContextSelect(q) ==
  /\ pool.pc[q].at = "idle"
  /\ \E cancelled \in BOOLEAN :
       \E case \in selectGetContext(pool.idleConns, cancelled) :
         LET call == [at |-> "dial", cancelled |-> cancelled, arg |-> 0,
                      idle |-> pool.idleConns]
         IN CASE case = "done" ->
                   /\ pool' = pool
                   /\ pret' = PoolReturn(q, "GetContext", call, pool.idleConns,
                                         0, ctxCanceled, 0, <<>>)
              [] case = "recv" ->
                   LET r == chanRecv(pool.idleConns)
                   IN /\ pool' = [pool EXCEPT !.idleConns = r.ch,
                                              !.held[q] = @ \cup {r.val}]
                      /\ pret' = PoolReturn(q, "GetContext", call, r.ch,
                                            r.val, Nil, 0, <<>>)
              [] case = "default" ->
                   /\ pool' = [pool EXCEPT !.pc[q] = call]
                   /\ pret' = pret
  /\ UNCHANGED <<err, rd, rdEnd, wbuf, werr, wfail, out, net, log, ret>>

\* return p.DialContext(ctx)
GetContextDial(q) ==
  /\ pool.pc[q].at = "dial"
  /\ \E ok \in BOOLEAN :
       /\ ok => pool.dials < MaxConns
       /\ LET d == DialContext(pool, ok)
          IN /\ pool' = [d.pool EXCEPT !.pc[q] = Resting,
                                       !.held[q] = IF d.conn = 0 THEN @
                                                   ELSE @ \cup {d.conn}]
             /\ pret' = PoolReturn(q, "GetContext", pool.pc[q], pool.pc[q].idle,
                                   d.conn, d.err, 1, <<>>)
  /\ UNCHANGED <<err, rd, rdEnd, wbuf, werr, wfail, out, net, log, ret>>

\* Put of a connection the caller holds, up to the end of its select.
PutSelect(q) ==
  /\ pool.pc[q].at = "idle"
  /\ \E c \in pool.held[q] :
       \E case \in selectPut(pool.idleConns, pool.maxIdleConns) :
         LET call == [at |-> "close", cancelled |-> FALSE, arg |-> c,
                      idle |-> pool.idleConns]
         IN CASE case = "send" ->
                   LET ch == chanSend(pool.idleConns, c)
                   IN /\ pool' = [pool EXCEPT !.idleConns = ch, !.held[q] = @ \ {c}]
                      /\ pret' = PoolReturn(q, "Put", call, ch, 0, Nil, 0, <<>>)
              [] case = "default" ->
                   /\ pool' = [pool EXCEPT !.pc[q] = call, !.held[q] = @ \ {c}]
                   /\ pret' = pret
  /\ UNCHANGED <<err, rd, rdEnd, wbuf, werr, wfail, out, net, log, ret>>

\* return c.Close()
PutClose(q) ==
  /\ pool.pc[q].at = "close"
  /\ \E closeErr \in {Nil, NetCloseError} :
       LET c == pool.pc[q].arg
           r == Close([net |-> pool.conns[c], log |-> <<>>], closeErr)
       IN /\ pool' = [pool EXCEPT !.conns[c] = r.c.net, !.pc[q] = Resting]
          /\ pret' = PoolReturn(q, "Put", pool.pc[q], pool.pc[q].idle, 0, r.err,
                                0, r.c.log)
  /\ UNCHANGED <<err, rd, rdEnd, wbuf, werr, wfail, out, net, log, ret>>

NextPool ==
  \E q \in Procs :
    \/ GetContextSelect(q)
    \/ GetContextDial(q)
    \/ PutSelect(q)
    \/ PutClose(q)

SpecPool == InitPool /\ [][NextPool]_vars

(***************************************************************************)
(* One connection used again after a command failed: every command on a    *)
(* stream that begins with a broken or an unexpected reply and goes on     *)
(* with a good one; each call remembers what the call before it returned.  *)
(***************************************************************************)
ReuseFirst ==
  {valueShortHeader, valueBadFlags, valueBadEnd, valueBlock, getHit,
   Line(lineOther), Line(replyNotFound)}

ReuseFollowers == {Line(lineVersion), Line(replyStored), getHit}

InitReuse ==
  /\ \E a \in ReuseFirst, b \in ReuseFollowers : rd = a \o b
  /\ rdEnd = EOF
  /\ wfail \in BOOLEAN
  /\ err = Nil
  /\ wbuf = <<>>
  /\ werr = Nil
  /\ out = <<>>
  /\ net = NetOpen
  /\ log = <<>>
  /\ pool = NoPool
  /\ pret = NoPoolCall
  /\ ret = [op |-> "new", arg |-> NoArg, noreply |-> FALSE,
            pre |-> [err |-> Nil, rd |-> rd, wbuf |-> <<>>, werr |-> Nil,
                     net |-> NetOpen, after |-> NoCall],
            res |-> [Returned([err |-> Nil], Nil) EXCEPT !.c = <<>>]]

\* What the next call remembers of the last one.
Remembered == [op |-> ret.op, err |-> ret.res.err]

ThenGet == CallAfter("Get", [NoArg EXCEPT !.key = Key], FALSE, Get(Start, Key), Remembered)

ThenGets ==
  CallAfter("Gets", [NoArg EXCEPT !.keys = <<Key>>], FALSE, Gets(Start, <<Key>>),
            Remembered)

ThenStorage ==
  \E command \in {cmdSet, cmdCas}, noreply \in BOOLEAN :
    CallAfter("Storage",
              [NoArg EXCEPT !.cmd = command, !.key = Key, !.value = <<"a", "b">>,
                            !.flags = 5, !.exptime = 60],
              noreply,
              sendStorageCommand(Start, command, Key, <<"a", "b">>, 5, 60, 0, noreply),
              Remembered)

ThenDelete ==
  \E noreply \in BOOLEAN :
    CallAfter("Delete", [NoArg EXCEPT !.key = Key], noreply,
              Delete(Start, Key, noreply), Remembered)

ThenIncrDecr ==
  \E command \in {cmdIncr, cmdDecr} :
    CallAfter("IncrDecr", [NoArg EXCEPT !.cmd = command, !.key = Key, !.n = 2], FALSE,
              executeIncrDecrCommand(Start, command, Key, 2, FALSE), Remembered)

ThenTouch ==
  CallAfter("Touch", [NoArg EXCEPT !.key = Key, !.exptime = 60], FALSE,
            Touch(Start, Key, 60, FALSE), Remembered)

ThenStats == CallAfter("Stats", NoArg, FALSE, Stats(Start, <<>>), Remembered)

ThenFlushAll ==
  CallAfter("FlushAll", [NoArg EXCEPT !.n = -1], FALSE, FlushAll(Start, -1, FALSE),
            Remembered)

ThenVersion == CallAfter("Version", NoArg, FALSE, Version(Start), Remembered)

ThenQuit == CallAfter("Quit", NoArg, FALSE, Quit(Start), Remembered)

NextReuse ==
  \/ ThenGet
  \/ ThenGets
  \/ ThenStorage
  \/ ThenDelete
  \/ ThenIncrDecr
  \/ ThenTouch
  \/ ThenStats
  \/ ThenFlushAll
  \/ ThenVersion
  \/ ThenQuit

SpecReuse == InitReuse /\ [][NextReuse]_vars

(***************************************************************************)
(* Properties.                                                             *)
(***************************************************************************)
\* C1 (SpecPrim): while the sticky slot holds an error, readLine, write and
\* flush return at once: no step on the stream, nothing read, buffered or
\* sent, the stored error unchanged; Err() returns the error and empties the
\* slot.
C1_StickyErrorGuards ==
  /\ (ret.op \in {"readLine", "write", "flush"} /\ ret.pre.err # Nil) =>
       /\ log = <<>>
       /\ out = <<>>
       /\ err = ret.pre.err
       /\ rd = ret.pre.rd
       /\ wbuf = ret.pre.wbuf
       /\ werr = ret.pre.werr
       /\ ret.res.line = <<>>
  /\ ret.op = "Err" => (err = Nil /\ ret.res.err = ret.pre.err)

\* readLine was called with an error stored and bytes waiting on the stream.
C1_Witness ==
  ret.op = "readLine" /\ ret.pre.err # Nil /\ ret.pre.rd # <<>>

\* C2 (Spec): within one command, no step that follows a failed step (a
\* write, the flush, a read, header parsing, the payload read, the reply
\* classification) calls the stream.
C2_FailedIsAbsorbing ==
  \A i \in 1..Len(log) :
    \A j \in 1..(i - 1) : log[j].err # Nil => ~log[i].io

\* Get failed on the header and returned with bytes still on the stream.
C2_Witness ==
  /\ ret.op = "Get"
  /\ rd # <<>>
  /\ \E i \in 1..Len(log) : log[i].op = "parseHeader" /\ log[i].err # Nil

FailedSteps == {i \in 1..Len(log) : log[i].err # Nil}

FirstFailed == CHOOSE i \in FailedSteps : \A j \in FailedSteps : i <= j

\* C3 (Spec): the error a command returns is the error of its first failed
\* step, unchanged (for Gets, END is the terminator and not an error); in
\* particular an error of the stream is returned as it is.
C3_FirstErrorReturned ==
  (~ret.res.panic /\ FailedSteps # {}) =>
    /\ IF ret.op = "Gets" /\ log[FirstFailed].err = ErrCacheMiss
       THEN ret.res.err = Nil
       ELSE ret.res.err = log[FirstFailed].err
    /\ \A i \in FailedSteps : log[i].io => ret.res.err = log[i].err

\* A storage command that awaited its reply returned the transport error of
\* the read.
C3_Witness ==
  /\ ret.op = "Storage"
  /\ ~ret.noreply
  /\ ret.res.err = NetReadError
  /\ \E i \in 1..Len(log) : log[i].op = "ReadLine" /\ log[i].err = NetReadError

\* The values a command returns.
Result(e) ==
  [err |-> e, value |-> <<>>, flags |-> Zero, items |-> {}, num |-> Zero,
   stats |-> {}, version |-> <<>>]

ResultOf(r) ==
  [err |-> r.err, value |-> r.value, flags |-> r.flags, items |-> r.items,
   num |-> r.num, stats |-> r.stats, version |-> r.version]

Expect(op, chunk, res) == [op |-> op, chunk |-> chunk, res |-> res]

\* Well-formed replies, the command each answers and the result each encodes.
WellFormedReplies ==
  {Expect("Storage", Line(replyStored), Result(Nil)),
   Expect("Storage", Line(replyExists), Result(ErrCasConflict)),
   Expect("Storage", Line(replyNotStored), Result(ErrNotStored)),
   Expect("Storage", Line(replyNotFound), Result(ErrNotFound)),
   Expect("Storage", Line(replyError), Result(ErrReplyError)),
   Expect("Storage", Line(lineClientErr), Result(ClientError(<<"a", " ", "b">>))),
   Expect("Storage", Line(lineServerErr), Result(ServerError(<<"a", " ", "b">>))),
   Expect("Delete", Line(replyDeleted), Result(Nil)),
   Expect("Delete", Line(replyNotFound), Result(ErrNotFound)),
   Expect("IncrDecr", Line(lineNumber), [Result(Nil) EXCEPT !.num = <<"4", "4">>]),
   Expect("IncrDecr", Line(<<"7">>), [Result(Nil) EXCEPT !.num = <<"7">>]),
   Expect("IncrDecr", Line(replyNotFound), Result(ErrNotFound)),
   Expect("Touch", Line(replyTouched), Result(Nil)),
   Expect("Touch", Line(replyNotFound), Result(ErrNotFound)),
   Expect("FlushAll", Line(replyOk), Result(Nil)),
   Expect("Version", Line(lineVersion), [Result(Nil) EXCEPT !.version = <<"1", ".", "6">>]),
   Expect("Version", Line(replyError), Result(ErrReplyError)),
   Expect("Get", Line(responseEnd), Result(ErrCacheMiss)),
   Expect("Get", getHit,
          [Result(Nil) EXCEPT !.value = <<"a", "b">>, !.flags = <<"5">>]),
   Expect("Gets", Line(responseEnd), Result(Nil)),
   Expect("Gets", getHit,
          [Result(Nil) EXCEPT !.items =
             {<<Key, [nil |-> FALSE, Value |-> <<"a", "b">>, Flags |-> <<"5">>,
                      CasID |-> Zero]>>}]),
   Expect("Gets", getsTwo,
          [Result(Nil) EXCEPT !.items =
             {<<Key, [nil |-> FALSE, Value |-> <<"a", "b">>, Flags |-> <<"5">>,
                      CasID |-> Zero]>>,
              <<<<"j">>, [nil |-> FALSE, Value |-> bytesCrlf, Flags |-> Zero,
                          CasID |-> <<"7">>]>>}]),
   Expect("Stats", Line(responseEnd), Result(Nil)),
   Expect("Stats", statsReply,
          [Result(Nil) EXCEPT !.stats =
             {<<<<"p", "i", "d">>, <<"1">>>>, <<<<"u", "p">>, <<"2">>>>}])}

\* C4 (Spec): a command issued without noreply on a stream that starts with
\* a well-formed reply to it returns the result that reply encodes and
\* consumes exactly that reply, so that the stream then starts with the
\* reply to the next command: by induction the k-th command gets the k-th
\* reply.
C4_RepliesConsumedInOrder ==
  \A x \in WellFormedReplies :
    (ret.op = x.op /\ ~ret.noreply /\ ~wfail /\ HasPrefix(ret.pre.rd, x.chunk)) =>
      /\ ~ret.res.panic
      /\ rd = Drop(ret.pre.rd, Len(x.chunk))
      /\ ResultOf(ret.res) = x.res

\* A counter command found its reply queued behind the previous command's
\* reply and consumed it exactly.
C4_Witness ==
  /\ ret.op = "IncrDecr"
  /\ ~ret.noreply
  /\ ret.pre.rd = Line(<<"7">>)
  /\ rd = <<>>
  /\ ret.res.num = <<"7">>

\* C5 (Spec): a command called with noreply reads nothing: the stream is
\* where it was, no step of the call is a read, and when every step
\* succeeded it returns nil (and 0 for the counters).
C5_NoreplyReadsNothing ==
  ret.noreply =>
    /\ rd = ret.pre.rd
    /\ \A i \in 1..Len(log) : log[i].op \notin {"ReadLine", "ReadFull"}
    /\ FailedSteps = {} => (ret.res.err = Nil /\ ret.res.num = Zero)

\* A counter command with noreply succeeded while a line was waiting.
C5_Witness ==
  /\ ret.noreply
  /\ ret.op = "IncrDecr"
  /\ ret.res.err = Nil
  /\ HasPrefix(rd, Line(lineNumber))

\* The reply lines that checkReply turns into an error of the server.
IsErrorLine(l) ==
  \/ l = replyError
  \/ HasPrefix(l, replyClientErrorPrefix)
  \/ HasPrefix(l, replyServerErrorPrefix)

\* C6 (Spec): a storage command without noreply maps its reply line as
\* STORED -> nil, EXISTS -> ErrCasConflict, NOT_STORED -> ErrNotStored,
\* NOT_FOUND -> ErrNotFound, and every other line that is not an error line
\* (DELETED, TOUCHED and OK among them) -> ProtocolError "unknown reply
\* type: <line>".
C6_StorageReplyMapping ==
  \A l \in ReplyLines :
    (/\ ret.op = "Storage"
     /\ ~ret.noreply
     /\ ~wfail
     /\ HasPrefix(ret.pre.rd, Line(l))
     /\ ~IsErrorLine(l)) =>
      ret.res.err =
        IF l = replyStored THEN Nil
        ELSE IF l = replyExists THEN ErrCasConflict
        ELSE IF l = replyNotStored THEN ErrNotStored
        ELSE IF l = replyNotFound THEN ErrNotFound
        ELSE ProtocolError(msgUnknownReply \o l)

\* C7 (SpecReply): checkReply, called with the slot empty on exactly STORED,
\* DELETED, TOUCHED or OK, reports ok and leaves the slot empty.
C7_SuccessTokens ==
  (/\ ret.op = "checkReply"
   /\ ret.pre.err = Nil
   /\ ret.arg.bytes \in {replyStored, replyDeleted, replyTouched, replyOk}) =>
    (ret.res.ok /\ err = Nil)

C7_Witness ==
  ret.op = "checkReply" /\ ret.pre.err = Nil /\ ret.arg.bytes = replyOk /\ ret.res.ok

\* C8 (SpecReply): checkReply maps exactly EXISTS to ErrCasConflict,
\* NOT_STORED to ErrNotStored and NOT_FOUND to ErrNotFound, and reports
\* not-ok.
C8_DomainErrors ==
  (ret.op = "checkReply" /\ ret.pre.err = Nil) =>
    /\ ret.arg.bytes = replyExists => (err = ErrCasConflict /\ ~ret.res.ok)
    /\ ret.arg.bytes = replyNotStored => (err = ErrNotStored /\ ~ret.res.ok)
    /\ ret.arg.bytes = replyNotFound => (err = ErrNotFound /\ ~ret.res.ok)

C8_Witness ==
  /\ ret.op = "checkReply"
  /\ ret.pre.err = Nil
  /\ ret.arg.bytes = replyNotStored
  /\ err = ErrNotStored

\* C9 (SpecReply): for every message m, 'CLIENT_ERROR ' + m is classified as
\* the ClientError with message m, 'SERVER_ERROR ' + m as the ServerError
\* with message m, and the line ERROR as ErrReplyError.
C9_ServerReportedErrors ==
  (ret.op = "checkReply" /\ ret.pre.err = Nil) =>
    /\ \A m \in Msgs :
         /\ ret.arg.bytes = replyClientErrorPrefix \o m =>
              (err.kind = "ClientError" /\ err.msg = m /\ ~ret.res.ok)
         /\ ret.arg.bytes = replyServerErrorPrefix \o m =>
              (err.kind = "ServerError" /\ err.msg = m /\ ~ret.res.ok)
    /\ ret.arg.bytes = replyError => (err = ErrReplyError /\ ~ret.res.ok)

\* A message that starts with a space keeps it, and only it.
C9_Witness ==
  /\ ret.op = "checkReply"
  /\ ret.pre.err = Nil
  /\ ret.arg.bytes = replyClientErrorPrefix \o <<" ", "a">>
  /\ err = ClientError(<<" ", "a">>)

\* The lines of the classifier's closed set.
InClosedSet(l) ==
  \/ l \in {replyStored, replyDeleted, replyTouched, replyOk}
  \/ l \in {replyExists, replyNotStored, replyNotFound}
  \/ IsErrorLine(l)

\* C10 (SpecReply): on every line outside the closed set checkReply reports
\* not-ok and sets no error; every decimal number is such a line.
C10_OtherLinesFallThrough ==
  /\ (ret.op = "checkReply" /\ ret.pre.err = Nil /\ ~InClosedSet(ret.arg.bytes)) =>
       (~ret.res.ok /\ err = Nil)
  /\ \A n \in Numbers \cup {lineNumber, maxUint64} : ~InClosedSet(n)

C10_Witness ==
  /\ ret.op = "checkReply"
  /\ ret.pre.err = Nil
  /\ ret.arg.bytes = lineNumber
  /\ ~ret.res.ok
  /\ err = Nil

\* C11 (SpecParse): Get on a stream whose first line is END returns
\* ErrCacheMiss with no value and has consumed that line and nothing else:
\* what followed END is still on the stream.
C11_MissConsumesOneLine ==
  (/\ ret.op = "Get"
   /\ ret.pre.err = Nil
   /\ HasPrefix(ret.pre.rd, Line(responseEnd))) =>
    /\ ret.res.err = ErrCacheMiss
    /\ ret.res.value = <<>>
    /\ rd = Drop(ret.pre.rd, Len(Line(responseEnd)))

\* A miss with the next reply already waiting behind END.
C11_Witness ==
  /\ ret.op = "Get"
  /\ ret.pre.err = Nil
  /\ ret.pre.rd = Line(responseEnd) \o Line(replyStored)
  /\ rd = Line(replyStored)
  /\ ret.res.err = ErrCacheMiss

\* The blocks parseGetResponseHeader accepts.
AcceptedBlocks == {b \in DecimalBlocks : b.flags # twoPow32 /\ b.cas # twoPow64}

\* The first line of s as the protocol defines it: up to the first LF, the
\* end of line (CR LF or LF) removed; the rest of s when s has no LF.
NextLine(s) ==
  LET nl == IndexByte(s, "\n")
  IN IF nl = 0 THEN [line |-> s, rest |-> <<>>]
     ELSE [line |-> IF nl > 1 /\ s[nl - 1] = "\r" THEN Take(s, nl - 2)
                    ELSE Take(s, nl - 1),
           rest |-> Drop(s, nl)]

\* C12 (SpecParse): after a well-formed VALUE header and its payload, Get
\* reads exactly one more line (when the stream has one); it returns the
\* value and the flags if that line is END, and otherwise ProtocolError
\* 'malformed response: corrupt get result end' and no value.
C12_EndConfirmation ==
  \A b \in AcceptedBlocks :
    (/\ ret.op = "Get"
     /\ ret.pre.err = Nil
     /\ HasPrefix(ret.pre.rd, b.bytes)
     /\ Len(ret.pre.rd) > Len(b.bytes)) =>
      LET l == NextLine(Drop(ret.pre.rd, Len(b.bytes)))
      IN /\ rd = l.rest
         /\ ~ret.res.panic
         /\ IF l.line = responseEnd
            THEN /\ ret.res.err = Nil
                 /\ ret.res.value = b.value
                 /\ ret.res.flags = StripZeros(b.flags)
            ELSE /\ ret.res.err = ProtocolError(msgCorruptEnd)
                 /\ ret.res.value = <<>>
                 /\ ret.res.flags = Zero

\* A hit followed by a line that is not END.
C12_Witness ==
  /\ ret.op = "Get"
  /\ ret.pre.err = Nil
  /\ ret.pre.rd = Block(Key, <<"5">>, <<>>, <<"a", "b">>).bytes \o Line(lineOther)
  /\ ret.res.err = ProtocolError(msgCorruptEnd)
  /\ rd = <<>>

\* VALUE headers of the inputs with the length each declares.
SizedHeaders ==
  {[line |-> NextLine(b.bytes).line, size |-> Len(b.value)] : b \in AcceptedBlocks}
    \cup {[line |-> Words(<<kwValue, Key, Zero, ItoaNat(n)>>), size |-> n] : n \in 1..3}

\* C13 (SpecParse): for a VALUE header declaring length L (L + 2 below
\* 2^64) followed by at least L + 2 bytes, receiveGetResponse consumes the
\* header line and exactly L + 2 bytes; when the last two are CR LF the
\* value is the first L bytes whatever they are, otherwise the result is
\* ProtocolError 'malformed response: corrupt get result end' and no value.
C13_PayloadByLength ==
  \A h \in SizedHeaders :
    (/\ ret.op = "receiveGetResponse"
     /\ ret.pre.err = Nil
     /\ HasPrefix(ret.pre.rd, Line(h.line))
     /\ Len(ret.pre.rd) >= Len(Line(h.line)) + h.size + 2) =>
      LET body == Drop(ret.pre.rd, Len(Line(h.line)))
      IN /\ rd = Drop(body, h.size + 2)
         /\ ~ret.res.panic
         /\ IF SubSeq(body, h.size + 1, h.size + 2) = bytesCrlf
            THEN /\ err = Nil
                 /\ ret.res.ok
                 /\ ret.res.value = Take(body, h.size)
            ELSE /\ err = ProtocolError(msgCorruptEnd)
                 /\ ~ret.res.ok
                 /\ ret.res.value = <<>>

\* A payload that is the text END was returned as the value, and the END
\* line behind it was left on the stream.
C13_Witness ==
  /\ ret.op = "receiveGetResponse"
  /\ ret.pre.err = Nil
  /\ ret.pre.rd = Block(<<"e">>, Zero, <<>>, responseEnd).bytes \o Line(responseEnd)
  /\ ret.res.value = responseEnd
  /\ rd = Line(responseEnd)

\* sub occurs in s.
Contains(s, sub) ==
  \E i \in 1..(Len(s) - Len(sub) + 1) : SubSeq(s, i, i + Len(sub) - 1) = sub

NumFields(l) == Len(Split(l, " "))

ShortHeaders == {h \in OddHeaders : h # responseEnd /\ NumFields(h) < 4}

IsDecimal(f) == Len(f) > 0 /\ \A i \in 1..Len(f) : IsDigit(f[i])

\* Header lines of 4 fields or more with a flags, size or CAS field that is
\* not decimal, and the first such field of each.
NonDecimalHeaders ==
  {[line |-> NextLine(b.bytes).line,
    bad |-> IF IsDecimal(b.flags) THEN b.cas ELSE b.flags] : b \in NonDecimalBlocks}
    \cup {[line |-> Words(<<kwValue, Key, Zero, <<"x">>>>), bad |-> <<"x">>]}

\* C15 (SpecParse): a header of 4 fields or more whose flags, size or (in a
\* 5-field header) CAS field is not decimal makes the retrieval fail with a
\* strconv.NumError for that field, not a ProtocolError, and no payload
\* byte is read; Get returns that error.
C15_NumericFormatError ==
  \A h \in NonDecimalHeaders :
    (/\ ret.op \in {"receiveGetResponse", "Get"}
     /\ ret.pre.err = Nil
     /\ HasPrefix(ret.pre.rd, Line(h.line))) =>
      LET e == IF ret.op = "Get" THEN ret.res.err ELSE err
      IN /\ e.kind = "NumError"
         /\ e.msg = h.bad
         /\ e.cause = "ErrSyntax"
         /\ ~ret.res.ok
         /\ ret.res.value = <<>>
         /\ ~ret.res.panic
         /\ rd = Drop(ret.pre.rd, Len(Line(h.line)))
         /\ \A i \in 1..Len(log) : log[i].op # "ReadFull"

\* A CAS field that is not a number was rejected before the payload.
C15_Witness ==
  /\ ret.op = "receiveGetResponse"
  /\ ret.pre.err = Nil
  /\ HasPrefix(ret.pre.rd, Block(Key, Zero, <<"x">>, <<"a", "b">>).bytes)
  /\ err = NumError(<<"x">>, "ErrSyntax")
  /\ HasPrefix(rd, Line(<<"a", "b">>))

FlagsBlock(flags) == Block(Key, flags, <<>>, <<"a", "b">>)

\* C16 as stated: flags of 65536 make the retrieval fail with a
\* numeric-format error.
C16_FlagsAre16Bit ==
  (/\ ret.op = "receiveGetResponse"
   /\ ret.pre.err = Nil
   /\ HasPrefix(ret.pre.rd, FlagsBlock(twoPow16).bytes)) =>
    (err.kind = "NumError" /\ ~ret.res.ok)

\* C16 (SpecParse), amended: the flags field is accepted when it is a
\* decimal number of the unsigned 32-bit range, 0..4294967295 (65535, 65536
\* and 4294967295 are returned as they are), and flags of 4294967296 make
\* the retrieval fail with a strconv.NumError (out of range) before any
\* payload byte is read.
C16_FlagsAre32Bit ==
  (ret.op = "receiveGetResponse" /\ ret.pre.err = Nil) =>
    /\ \A f \in {<<"5">>, Zero, <<"6", "5", "5", "3", "5">>, twoPow16, maxUint32} :
         HasPrefix(ret.pre.rd, FlagsBlock(f).bytes) =>
           (err = Nil /\ ret.res.ok /\ ret.res.flags = f
              /\ ret.res.value = <<"a", "b">>)
    /\ HasPrefix(ret.pre.rd, FlagsBlock(twoPow32).bytes) =>
         /\ err = NumError(twoPow32, "ErrRange")
         /\ ~ret.res.ok
         /\ rd = Drop(ret.pre.rd, Len(NextLine(FlagsBlock(twoPow32).bytes).line) + 2)

\* Flags of 65536 came back from a retrieval.
C16_Witness ==
  /\ ret.op = "receiveGetResponse"
  /\ ret.pre.err = Nil
  /\ HasPrefix(ret.pre.rd, FlagsBlock(twoPow16).bytes)
  /\ ret.res.ok
  /\ ret.res.flags = twoPow16

\* Header lines of 4 fields or more whose first field is not VALUE.
ForeignHeaders == {h \in OddHeaders : NumFields(h) >= 4 /\ ~HasPrefix(h, kwValue \o SP)}

\* C17 (SpecParse): a line of 4 fields or more whose first field is not the
\* literal VALUE is never followed by a payload read and never produces a
\* value.
C17_FirstFieldIsValue ==
  \A h \in ForeignHeaders :
    (/\ ret.op \in {"receiveGetResponse", "Get", "Gets"}
     /\ ret.pre.err = Nil
     /\ HasPrefix(ret.pre.rd, Line(h))) =>
      /\ \A i \in 1..Len(log) : log[i].op # "ReadFull"
      /\ ~ret.res.ok
      /\ ret.res.value = <<>>
      /\ ret.res.items = {}

\* The item a block encodes.
ItemOf(b) ==
  [nil |-> FALSE, Value |-> b.value, Flags |-> StripZeros(b.flags),
   CasID |-> IF b.cas = <<>> THEN Zero ELSE StripZeros(b.cas)]

\* C18 (SpecParse): Gets on n >= 0 well-formed VALUE blocks followed by END
\* returns a nil error and a map whose keys are exactly the keys of the
\* headers, each with the value, flags and CAS id of its block (of its last
\* block when a key comes twice), and consumes the blocks and END; just END
\* gives the empty map; Gets never returns ErrCacheMiss.
C18_GetsCollectsBlocks ==
  /\ ret.op = "Gets" => ret.res.err # ErrCacheMiss
  /\ \A f \in SeqsOfBlocks :
       (/\ ret.op = "Gets"
        /\ ret.pre.err = Nil
        /\ HasPrefix(ret.pre.rd, BlockBytes(f) \o Line(responseEnd))) =>
         /\ ret.res.err = Nil
         /\ ~ret.res.panic
         /\ MapKeys(ret.res.items) = {f[i].key : i \in 1..Len(f)}
         /\ ret.res.items =
              {<<f[i].key, ItemOf(f[i])>> :
                 i \in {i \in 1..Len(f) :
                          \A j \in (i + 1)..Len(f) : f[j].key # f[i].key}}
         /\ rd = Drop(ret.pre.rd, Len(BlockBytes(f) \o Line(responseEnd)))

\* Two blocks and END gave a map of two items.
C18_Witness ==
  /\ ret.op = "Gets"
  /\ ret.pre.err = Nil
  /\ ret.pre.rd = Block(Key, <<"5">>, <<>>, <<"a", "b">>).bytes
                    \o Block(<<"j">>, Zero, <<"7">>, bytesCrlf).bytes
                    \o Line(responseEnd)
  /\ ret.res.err = Nil
  /\ Cardinality(ret.res.items) = 2
  /\ rd = <<>>

\* C19 (SpecParse): the CAS id of a retrieved item is the decimal value of
\* the header's 5th field when the header has exactly 5 fields, and 0 when
\* it has 4; value and flags are those of the block.
C19_CasIdFromFifthField ==
  \A b \in AcceptedBlocks :
    (/\ ret.op = "receiveGetResponse"
     /\ ret.pre.err = Nil
     /\ HasPrefix(ret.pre.rd, b.bytes)) =>
      /\ err = Nil
      /\ ret.res.ok
      /\ ret.res.line = b.key
      /\ ret.res.value = b.value
      /\ ret.res.flags = StripZeros(b.flags)
      /\ ret.res.num = IF NumFields(NextLine(b.bytes).line) = 5
                       THEN StripZeros(b.cas) ELSE Zero

\* A five-field header with the CAS id 007 gave the CAS id 7.
C19_Witness ==
  /\ ret.op = "receiveGetResponse"
  /\ ret.pre.err = Nil
  /\ HasPrefix(ret.pre.rd, Block(<<"j">>, Zero, <<"0", "0", "7">>, <<>>).bytes)
  /\ ret.res.ok
  /\ ret.res.num = <<"7">>

\* C20 (SpecParse): Stats on zero or more lines 'STAT <key> <value>' and
\* END returns a nil error and the map with one entry per distinct key,
\* holding that key's (last) value; when the line after the STAT lines is
\* neither END nor a line starting with 'STAT ', Stats returns
\* ProtocolError 'malformed stats response' and no map.
C20_StatsMap ==
  \A f \in SeqsOfStats :
    (/\ ret.op = "Stats"
     /\ ret.pre.err = Nil
     /\ HasPrefix(ret.pre.rd, BlockBytes(f))
     /\ Len(ret.pre.rd) > Len(BlockBytes(f))) =>
      LET l == NextLine(Drop(ret.pre.rd, Len(BlockBytes(f))))
      IN /\ l.line = responseEnd =>
              /\ ~ret.res.panic
              /\ ret.res.err = Nil
              /\ ret.res.stats =
                   {<<f[i].key, f[i].value>> :
                      i \in {i \in 1..Len(f) :
                               \A j \in (i + 1)..Len(f) : f[j].key # f[i].key}}
              /\ rd = l.rest
         /\ (l.line # responseEnd /\ ~HasPrefix(l.line, <<"S", "T", "A", "T", " ">>)) =>
              /\ ~ret.res.panic
              /\ ret.res.err = ProtocolError(msgMalformedStats)
              /\ ret.res.stats = {}
              /\ rd = l.rest

\* Two STAT lines and END gave the map pid -> 1, up -> 2.
C20_Witness ==
  /\ ret.op = "Stats"
  /\ ret.pre.err = Nil
  /\ ret.res.err = Nil
  /\ ret.res.stats = {<<<<"p", "i", "d">>, <<"1">>>>, <<<<"u", "p">>, <<"2">>>>}

\* C21 (SpecParse): a line that starts with 'STAT ' and has no value after
\* the key ('STAT pid'), or nothing at all after the prefix, makes Stats
\* return ProtocolError 'malformed stats response', without a crash.
C21_StatLineWithoutValue ==
  \A l \in {statNoValue, Line(statPrefix)} :
    (/\ ret.op = "Stats"
     /\ ret.pre.err = Nil
     /\ HasPrefix(ret.pre.rd, l)) =>
      /\ ~ret.res.panic
      /\ ret.res.err = ProtocolError(msgMalformedStats)

\* C22 (SpecParse): in 'STAT up 2 3' the key ends at the first space after
\* it and the entry for the key is the whole rest, '2 3'.
C22_StatValueKeepsSpaces ==
  (/\ ret.op = "Stats"
   /\ ret.pre.err = Nil
   /\ ret.pre.rd = statSpaced \o Line(responseEnd)) =>
    /\ ret.res.err = Nil
    /\ ret.res.stats = {<<<<"u", "p">>, <<"2", " ", "3">>>>}

\* The first line of the stream a command that awaits its reply started on.
FirstReply == NextLine(ret.pre.rd).line

\* The command awaited one reply line and the stream had one.
Awaited(op) ==
  /\ ret.op = op
  /\ ~ret.noreply
  /\ ret.pre.err = Nil
  /\ ret.pre.rd # <<>>

\* Unsigned decimals within 64 bits, as written and as numbers.
CounterValues ==
  {<<lineNumber, lineNumber>>, <<Zero, Zero>>, <<<<"0", "0", "7">>, <<"7">>>>,
   <<maxUint64, maxUint64>>}

\* Lines that are neither a classified error nor an unsigned 64-bit decimal.
NotCounterValues ==
  {lineOther, <<"-", "1">>, <<"+", "5">>, <<"4", "x">>, <<>>, twoPow64,
   replyStored, replyOk, lineVersion}

\* C23 (SpecOneLine): Increment/Decrement without noreply return the number
\* of a reply that is an unsigned decimal within 64 bits, with a nil error;
\* ErrNotFound for NOT_FOUND; and for a reply that is neither a classified
\* error nor such a number (text, a negative number, an empty line, 2^64) a
\* strconv.NumError, not a ProtocolError, with the result 0.
C23_CounterReply ==
  Awaited("IncrDecr") =>
    /\ \A v \in CounterValues :
         FirstReply = v[1] => (ret.res.err = Nil /\ ret.res.num = v[2])
    /\ FirstReply = replyNotFound =>
         (ret.res.err = ErrNotFound /\ ret.res.num = Zero)
    /\ FirstReply \in NotCounterValues =>
         /\ ret.res.err.kind = "NumError"
         /\ ret.res.err.msg = FirstReply
         /\ ret.res.num = Zero
    /\ rd = NextLine(ret.pre.rd).rest

\* The reply 2^64 gave a numeric error and the result 0.
C23_Witness ==
  /\ Awaited("IncrDecr")
  /\ FirstReply = twoPow64
  /\ ret.res.err = NumError(twoPow64, "ErrRange")
  /\ ret.res.num = Zero

\* C24 (SpecOneLine): Version returns the rest of every reply that starts
\* with the 8 bytes 'VERSION ' with a nil error, ErrReplyError for ERROR,
\* and a ProtocolError for every other reply the classifier does not
\* recognise.
C24_VersionReply ==
  Awaited("Version") =>
    /\ HasPrefix(FirstReply, <<"V", "E", "R", "S", "I", "O", "N", " ">>) =>
         (ret.res.err = Nil /\ ret.res.version = Drop(FirstReply, 8))
    /\ FirstReply = replyError =>
         (ret.res.err = ErrReplyError /\ ret.res.version = <<>>)
    /\ (/\ ~InClosedSet(FirstReply)
        /\ ~HasPrefix(FirstReply, <<"V", "E", "R", "S", "I", "O", "N", " ">>)) =>
         /\ ret.res.err = ProtocolError(msgUnknownReply \o FirstReply)
         /\ ret.res.version = <<>>
    /\ rd = NextLine(ret.pre.rd).rest

\* A version that itself holds a space came back whole.
C24_Witness ==
  /\ Awaited("Version")
  /\ FirstReply = bytesVersion \o <<"1", " ", "2">>
  /\ ret.res.err = Nil
  /\ ret.res.version = <<"1", " ", "2">>

\* The success token of each of the three commands.
OwnToken(op) ==
  IF op = "Delete" THEN replyDeleted
  ELSE IF op = "Touch" THEN replyTouched
  ELSE replyOk

\* C25 (SpecOneLine): Delete, Touch and FlushAll without noreply return nil
\* only for their own token (DELETED, TOUCHED, OK); Delete and Touch return
\* ErrNotFound for NOT_FOUND; every other reply that is not an error line,
\* the success tokens of other commands and the domain tokens the command
\* does not define among them, is a protocol error.
C25_OwnSuccessToken ==
  \A op \in {"Delete", "Touch", "FlushAll"} :
    (Awaited(op) /\ ~IsErrorLine(FirstReply)) =>
      ret.res.err =
        IF FirstReply = OwnToken(op) THEN Nil
        ELSE IF FirstReply = replyNotFound /\ op # "FlushAll" THEN ErrNotFound
        ELSE ProtocolError(msgUnknownReply \o FirstReply)

\* The command started with an empty slot on a writer that works: out is
\* what it sent.
Sent(op) == ret.op = op /\ ret.pre.err = Nil /\ ret.pre.wbuf = <<>> /\ ~wfail

NotEmpty(f) == f # <<>>

\* The tokens of a request line: its fields between spaces.
Tokens(l) == SelectSeq(Split(l, " "), NotEmpty)

C27_StorageRequest ==
  Sent("Storage") =>
    LET l == NextLine(out)
        f == Split(l.line, " ")
    IN /\ l.rest = ret.arg.value \o bytesCrlf
       /\ Len(f) = IF ret.arg.cmd = cmdCas THEN 7 ELSE 6
       /\ f[1] = ret.arg.cmd
       /\ f[2] = ret.arg.key
       /\ f[3] = Itoa(ret.arg.flags)
       /\ f[4] = Itoa(ret.arg.exptime)
       /\ IsDecimal(f[5]) /\ ToInt(f[5]) = Len(ret.arg.value)
       /\ ret.arg.cmd = cmdCas => f[6] = Itoa(ret.arg.casid)
       /\ f[Len(f)] = IF ret.noreply THEN optionNoreply ELSE <<>>

\* cas with the CAS id 0 and a payload that is CR LF.
C27_Witness ==
  /\ Sent("Storage")
  /\ ret.arg.cmd = cmdCas
  /\ ret.arg.casid = 0
  /\ ret.arg.value = bytesCrlf
  /\ Tokens(NextLine(out).line) = <<cmdCas, Key, <<"5">>, <<"6", "0">>, <<"2">>, Zero>>
  /\ NextLine(out).rest = bytesCrlf \o bytesCrlf

\* The first line waiting on the stream does not fit the read buffer: the
\* stream layer hands its beginning over as a fragment (isPrefix).
Overflows(op) ==
  /\ ret.op = op
  /\ ret.pre.err = Nil
  /\ IndexByte(ret.pre.rd, "\n") # 0
  /\ bufioReadLine(ret.pre.rd, rdEnd).isPrefix

\* C28 (SpecPrim): a line too long for the read buffer is not an error:
\* readLine reads on while the stream layer reports a fragment, returns the
\* whole line up to its end of line with the slot left empty, and the line
\* is classified as the reply it is.
C28_LongLineReadWhole ==
  /\ Overflows("readLine") =>
       /\ Len(NextLine(ret.pre.rd).line) + 2 > BufSize
       /\ ret.res.line = NextLine(ret.pre.rd).line
       /\ rd = NextLine(ret.pre.rd).rest
       /\ err = Nil
       /\ Len(log) > 1
       /\ \A i \in 1..Len(log) : log[i].op = "ReadLine" /\ log[i].err = Nil
  /\ Overflows("receiveCheckReply") =>
       /\ rd = NextLine(ret.pre.rd).rest
       /\ NextLine(ret.pre.rd).line = lineClientErr => err = ClientError(<<"a", " ", "b">>)
       /\ err \notin TransportErrors

\* CLIENT_ERROR a b, longer than the buffer, comes back whole.
C28_Witness ==
  /\ Overflows("readLine")
  /\ ret.pre.rd = Line(lineClientErr) \o Line(lineOther)
  /\ ret.res.line = lineClientErr
  /\ Len(ret.res.line) > BufSize
  /\ err = Nil
  /\ rd = Line(lineOther)

\* C28 as stated: a line that does not fit the buffer fills the slot with
\* an error and is not handed over as a reply.
C28_LongLineIsFramingError ==
  /\ Overflows("readLine") => err # Nil /\ ret.res.line = <<>>
  /\ Overflows("receiveCheckReply") => err \notin {ClientError(<<"a", " ", "b">>)}

CloseSteps == {i \in 1..Len(log) : log[i].op = "Close"}

\* C30 (SpecLife): the network connection is closed at most once.  The
\* Close that finds it open closes it once, returns what that close returned
\* and clears netConn and rw; every Close after it returns nil, does no
\* input or output and changes nothing.
C30_CloseIdempotent ==
  /\ net.closes <= 1
  /\ net.netConn = (net.closes = 0)
  /\ net.rw = net.netConn
  /\ ret.op = "Close" =>
       /\ ~ret.res.panic
       /\ rd = ret.pre.rd /\ err = ret.pre.err /\ wbuf = ret.pre.wbuf
       /\ out = <<>>
       /\ IF ret.pre.net.netConn
          THEN /\ net = [netConn |-> FALSE, rw |-> FALSE, closes |-> 1]
               /\ Len(log) = 1
               /\ log[1] = [op |-> "Close", io |-> TRUE, err |-> ret.res.err]
          ELSE /\ ret.res.err = Nil
               /\ log = <<>>
               /\ net = ret.pre.net

\* A Close after the Close that closed: nil, no step, still closed once.
C30_Witness ==
  /\ ret.op = "Close"
  /\ ~ret.pre.net.netConn
  /\ ret.pre.net.closes = 1
  /\ net.closes = 1
  /\ ret.res.err = Nil
  /\ log = <<>>

\* C31 (SpecPool): GetContext with a cancelled context returns no
\* connection and the error of the context, whatever the pool holds.
C31_CancelledGetsNothing ==
  (pret.op = "GetContext" /\ pret.cancelled) =>
    /\ pret.conn = 0
    /\ pret.err = ctxCanceled

\* C32 (SpecPool): the channel never holds more than maxIdleConns
\* connections.  A Put that finds it full closes the connection it was
\* given, once, and returns what that Close returned, storing nothing; a
\* Put that finds room appends the connection, closes nothing and returns
\* nil.
C32_IdleBounded ==
  /\ Len(pool.idleConns) <= pool.maxIdleConns
  /\ pret.op = "Put" =>
       IF Len(pret.idle) >= pool.maxIdleConns
       THEN /\ pret.idleAfter = pret.idle
            /\ Len(pret.closes) = 1
            /\ pret.closes[1].op = "Close"
            /\ pret.err = pret.closes[1].err
            /\ pool.conns[pret.arg] = [netConn |-> FALSE, rw |-> FALSE, closes |-> 1]
       ELSE /\ pret.idleAfter = Append(pret.idle, pret.arg)
            /\ pret.closes = <<>>
            /\ pret.err = Nil
            /\ pool.conns[pret.arg] = NetOpen

\* A Put into a full pool of one: the connection is closed and the error
\* of its Close comes back.
C32_Witness ==
  /\ pret.op = "Put"
  /\ pool.maxIdleConns = 1
  /\ Len(pret.idle) = 1
  /\ pret.err = NetCloseError
  /\ pool.conns[pret.arg].closes = 1
  /\ Len(pool.idleConns) <= 1

\* C33 (SpecPool): GetContext with a context that is not cancelled returns
\* the connection at the head of the channel, taking it out and dialing
\* nothing, when the channel holds one; when it holds none it calls
\* DialContext once and returns what DialContext returned.
C33_IdleBeforeDial ==
  (pret.op = "GetContext" /\ ~pret.cancelled) =>
    IF pret.idle # <<>>
    THEN /\ pret.conn = Head(pret.idle)
         /\ pret.err = Nil
         /\ pret.idleAfter = Tail(pret.idle)
         /\ pret.dials = 0
    ELSE /\ pret.dials = 1
         /\ pret.idleAfter = <<>>
         /\ \/ pret.conn \in ConnIds /\ pret.err = Nil /\ pret.conn <= pool.dials
            \/ pret.conn = 0 /\ pret.err = DialError

\* A caller receives the connection another caller had put, with no dial.
C33_Witness ==
  /\ pret.op = "GetContext"
  /\ ~pret.cancelled
  /\ pret.idle # <<>>
  /\ pret.conn = Head(pret.idle)
  /\ pret.dials = 0
  /\ pool.dials = 1
  /\ pret.conn \in pool.held[pret.proc]

\* The connections in the channel.
Idle == {pool.idleConns[i] : i \in 1..Len(pool.idleConns)}

\* The connections a Put is about to close.
Closing == {pool.pc[q].arg : q \in {r \in Procs : pool.pc[r].at = "close"}}

\* C40 (SpecPool): callers putting only what they hold, no connection is
\* held by two callers, none is both in the channel and held, none is in the
\* channel twice, and none that a Put closes or closed is held or idle.
C40_ExclusiveLease ==
  /\ \A q, r \in Procs : q # r => pool.held[q] \cap pool.held[r] = {}
  /\ \A q \in Procs : pool.held[q] \cap Idle = {}
  /\ \A i, j \in 1..Len(pool.idleConns) :
       i # j => pool.idleConns[i] # pool.idleConns[j]
  /\ \A q \in Procs : pool.held[q] \cap Closing = {}
  /\ Idle \cap Closing = {}
  /\ \A c \in Idle \cup UNION {pool.held[q] : q \in Procs} :
       c <= pool.dials /\ pool.conns[c] = NetOpen

\* Two callers hold a connection each, one of them received from the
\* channel, while another connection is idle.
C40_Witness ==
  /\ \E q, r \in Procs : q # r /\ pool.held[q] # {} /\ pool.held[r] # {}
  /\ pret.op = "GetContext"
  /\ pret.idle # <<>>
  /\ pret.conn \in pool.held[pret.proc]
  /\ pool.idleConns # <<>>

BrokenRetrievals ==
  {[chunk |-> valueShortHeader, kind |-> "ProtocolError", read |-> Len(valueShortHeader)],
   [chunk |-> valueBadFlags, kind |-> "NumError", read |-> Len(valueBadFlags) - 4],
   [chunk |-> valueBadEnd, kind |-> "ProtocolError", read |-> Len(valueBadEnd) - 1],
   [chunk |-> Line(lineOther), kind |-> "ProtocolError", read |-> Len(Line(lineOther))]}

OneLineCommands == {"Storage", "Delete", "IncrDecr", "Touch", "FlushAll", "Version"}

\* The call before this one was a retrieval that failed on the format of
\* its reply.
AfterBrokenRetrieval ==
  /\ ret.op # "new"
  /\ ret.pre.after.op \in {"Get", "Gets"}
  /\ ret.pre.after.err.kind \in {"ProtocolError", "NumError"}

\* C37 (SpecReuse): a Get or Gets that fails on a broken reply stops
\* reading where it failed: the bytes of the reply after that point are
\* still the head of the stream, nothing is skipped to find the next reply;
\* and the command called next takes the line at the head of what was left
\* as its own reply.
C37_NoResync ==
  /\ \A b \in BrokenRetrievals :
       (/\ ret.op \in {"Get", "Gets"}
        /\ ~wfail
        /\ HasPrefix(ret.pre.rd, b.chunk)) =>
         /\ ret.res.err.kind = b.kind
         /\ rd = Drop(ret.pre.rd, b.read)
  /\ (ret.op = "Get" /\ ~wfail /\ HasPrefix(ret.pre.rd, valueBlock)
        /\ ~HasPrefix(ret.pre.rd, getHit)) =>
       /\ ret.res.err = ProtocolError(msgCorruptEnd)
       /\ rd = NextLine(Drop(ret.pre.rd, Len(valueBlock))).rest
  /\ (AfterBrokenRetrieval /\ ~wfail /\ ~ret.noreply /\ ret.pre.rd # <<>>) =>
       /\ ret.op \in OneLineCommands => rd = NextLine(ret.pre.rd).rest
       /\ ret.op = "Version" =>
            IF HasPrefix(FirstReply, bytesVersion)
            THEN ret.res.version = Drop(FirstReply, Len(bytesVersion))
            ELSE ret.res.err # Nil
       /\ ret.op \in {"Get", "Gets", "Stats"} =>
            \E n \in 0..Len(NextLine(ret.pre.rd).rest) :
              rd = Drop(NextLine(ret.pre.rd).rest, n)

\* Get failed on the flags of its header and left the payload; Version
\* takes the payload line for its reply and fails on it.
C37_Witness ==
  /\ AfterBrokenRetrieval
  /\ ret.pre.after.err.kind = "NumError"
  /\ ret.op = "Version"
  /\ ret.pre.rd = Line(<<"a", "b">>) \o Line(lineVersion)
  /\ ret.res.err.kind = "ProtocolError"
  /\ rd = Line(lineVersion)

ReadSteps == {i \in 1..Len(log) : log[i].op \in {"ReadLine", "ReadFull"}}

WriteSteps == {i \in 1..Len(log) : log[i].op \in {"Write", "Flush"}}

\* C35 (Spec): in the steps of a command every write and flush comes
\* before every read; a command that reads has flushed with success before
\* its first read, so that its whole request, ended by CR LF, has left the
\* write buffer; no command writes once it has read.
C35_RequestBeforeReply ==
  /\ \A i \in WriteSteps, j \in ReadSteps : i < j
  /\ ReadSteps # {} =>
       /\ \E k \in WriteSteps :
            /\ log[k].op = "Flush" /\ log[k].err = Nil
            /\ \A j \in ReadSteps : k < j
            /\ \A i \in WriteSteps : i <= k
       /\ \A i \in WriteSteps : log[i].err = Nil
       /\ wbuf = <<>>
       /\ ~wfail => out # <<>> /\ HasSuffix(out, bytesCrlf)
       /\ ~ret.noreply

\* Stats wrote and flushed its request, then read three lines.
C35_Witness ==
  /\ ret.op = "Stats"
  /\ ret.res.err = Nil
  /\ out = cmdStats \o SP \o bytesCrlf
  /\ Cardinality(ReadSteps) >= 3
  /\ WriteSteps # {}
  /\ \A i \in WriteSteps, j \in ReadSteps : i < j

\* C36 (SpecParse): Get never uses a nil response.  A receiveGetResponse
\* that gives no item leaves an error in the slot; in Get the step that
\* fails the retrieval is the last step, so the read of the END line is
\* skipped, and Get returns that error with no value instead of reading
\* the fields of the response.
C36_NilResponseGuarded ==
  /\ (ret.op = "receiveGetResponse" /\ ~ret.res.panic /\ ~ret.res.ok) =>
       /\ err # Nil
       /\ ret.res.value = <<>>
  /\ ret.op = "Get" =>
       /\ ~ret.res.panic
       /\ FailedSteps # {} =>
            /\ \A i \in ReadSteps : i <= FirstFailed
            /\ ret.res.err = log[FirstFailed].err
            /\ ret.res.value = <<>> /\ ret.res.flags = Zero
       /\ ret.res.err = Nil =>
            \E i \in 1..Len(log) : log[i].op = "ReadFull" /\ log[i].err = Nil

\* Get on a header with flags that are no number, END right behind it: the
\* header fails, END is not read, the error comes back.
C36_Witness ==
  /\ ret.op = "Get"
  /\ ret.pre.rd = Line(Words(<<kwValue, Key, <<"x">>, <<"2">>>>)) \o Line(<<"a", "b">>)
                    \o Line(responseEnd)
  /\ ret.res.err.kind = "NumError"
  /\ log[Len(log)].op = "parseHeader"
  /\ rd = Line(<<"a", "b">>) \o Line(responseEnd)
  /\ ~ret.res.panic

RECURSIVE HasEndLine(_)
\* Some line of s is END.
HasEndLine(s) ==
  IF s = <<>> THEN FALSE
  ELSE NextLine(s).line = responseEnd \/ HasEndLine(NextLine(s).rest)

\* C38 (SpecParse): Gets and Stats, called with an empty slot, end on every
\* stream.  They make no more reads than the stream has bytes, plus the one
\* that finds it at its end; a read that fails is their last read and its
\* error is the error returned; a stream with no END line makes them
\* return an error.
C38_LoopsTerminate ==
  (ret.op \in {"Gets", "Stats"} /\ ret.pre.err = Nil /\ ~ret.res.panic) =>
    /\ Cardinality(ReadSteps) <= Len(ret.pre.rd) + 1
    /\ \A i \in ReadSteps :
         log[i].err # Nil =>
           /\ \A j \in ReadSteps : j <= i
           /\ rd = <<>>
           /\ ret.res.err = log[i].err
    /\ ~HasEndLine(ret.pre.rd) =>
         /\ ret.res.err # Nil
         /\ ret.res.items = {} /\ ret.res.stats = {}
    /\ (Len(log) > 0 /\ log[Len(log)].op = "ReadLine" /\ log[Len(log)].err # Nil) =>
         /\ rd = <<>>
         /\ ret.res.err = rdEnd

\* Gets on one block and no END: the block is read, the next read finds
\* the end of the stream, Gets returns EOF.
C38_Witness ==
  /\ ret.op = "Gets"
  /\ ret.pre.rd = Line(Words(<<kwValue, Key, <<"5">>, <<"2">>>>)) \o Line(<<"a", "b">>)
  /\ ret.res.err = EOF
  /\ rd = <<>>
  /\ Cardinality(ReadSteps) >= 3

\* Headers whose length plus 2 passes 2^64, with the length of the buffer
\* that results.
WrappedBuffers ==
  {[line |-> Words(<<kwValue, Key, Zero, maxUint64Minus1>>), len |-> 0],
   [line |-> Words(<<kwValue, Key, Zero, maxUint64>>), len |-> 1]}

\* The retrieval ret is about started with an empty slot on header h.
RetrievalOn(h) ==
  /\ ret.op \in {"receiveGetResponse", "Get", "Gets"}
  /\ ret.pre.err = Nil
  /\ HasPrefix(ret.pre.rd, Line(h))

\* The error the retrieval ended with.
Surfaced == IF ret.op = "receiveGetResponse" THEN err ELSE ret.res.err

\* C39 as stated: a header whose length is 2^64-2 or 2^64-1 always gives
\* ProtocolError 'malformed response: corrupt get result end'.
C39_WrapIsProtocolError ==
  \A w \in WrappedBuffers :
    RetrievalOn(w.line) =>
      /\ ~ret.res.panic
      /\ Surfaced = ProtocolError(msgCorruptEnd)

\* C39 (SpecParse), amended: for a declared length of 2^64-2 or 2^64-1 the
\* buffer has 0 or 1 bytes; nothing panics and no value is made.  When the
\* stream holds as many bytes after the header, they are read and the
\* result is ProtocolError 'malformed response: corrupt get result end';
\* when the buffer has 1 byte and the stream ends with the header, the
\* result is the error of that read (EOF).
C39_WrapNeverSliced ==
  \A w \in WrappedBuffers :
    RetrievalOn(w.line) =>
      LET rest == Drop(ret.pre.rd, Len(Line(w.line)))
      IN /\ ~ret.res.panic
         /\ ~ret.res.ok
         /\ ret.res.value = <<>>
         /\ ret.res.items = {}
         /\ IF Len(rest) >= w.len
            THEN /\ Surfaced = ProtocolError(msgCorruptEnd)
                 /\ rd = Drop(rest, w.len)
            ELSE /\ Surfaced = rdEnd
                 /\ rd = <<>>

\* Length 2^64-1 before CR LF: one byte is read, the error is the protocol
\* error.
C39_Witness ==
  /\ RetrievalOn(Words(<<kwValue, Key, Zero, maxUint64>>))
  /\ ret.op = "Get"
  /\ ret.pre.rd = Line(Words(<<kwValue, Key, Zero, maxUint64>>)) \o bytesCrlf
  /\ ret.res.err = ProtocolError(msgCorruptEnd)
  /\ rd = <<"\n">>
  /\ ~ret.res.panic

====
